---------------------------- MODULE Spec2Model ----------------------------
(***************************************************************************)
(* Model of the keelboat generator:                                        *)
(*   src/src/design/main.py    the design run (hull, deck, keel, rig)      *)
(*   src/src/lines/__main__.py the lines-plan run (slicing and drawings)   *)
(*                                                                         *)
(* Numbers.  The Python code computes in binary floating point.  The model *)
(* computes in exact rational arithmetic: a number is a pair <<n, d>> with *)
(* d > 0 in lowest terms.  Rounding of IEEE doubles is therefore outside   *)
(* the model.  math.sin is modelled on the thirteen arguments the code     *)
(* uses by a table of four-decimal values.                                 *)
(*                                                                         *)
(* Kernel.  The geometry kernel (FreeCAD Part) is external.  A call that   *)
(* can fail is modelled by a nondeterministic choice between success and   *)
(* an exception.                                                           *)
(***************************************************************************)
EXTENDS Integers, Sequences, FiniteSets, TLC

VARIABLES
    \* ---- interp_table applied to one argument
    it_frac, it_out,
    \* ---- hull_section_points applied to one argument pair
    sp_hw, sp_hd, sp_pts,
    \* ---- slice_shapes_safely applied to one list of shapes
    sl_in, sl_out,
    \* ---- the design run (design/main.py, executed top to bottom)
    pc, params, i, outer_wires, inner_wires, loft_calls, inner_loft, vessel,
    log, kernel_calls, kernel_failed, fatal, saved,
    \* ---- the lines-plan run (lines/__main__.py, create_lines_plan)
    l_pc, l_params, l_shapes, l_sections, l_waterlines, l_k, l_groups,
    l_attempted, l_caught, l_result, l_exit, l_fatal,
    \* ---- get_section_positions / get_waterline_positions on one params
    ps_params, ps_sections, ps_waterlines,
    \* ---- map_point applied to one point and view name
    mp_point, mp_view, mp_out,
    \* ---- the scale-bar selection applied to one pair of extents
    sb_extents, sb_out,
    \* ---- a renderer (export_wires_to_svg or export_wire_groups_to_svg)
    \*      called on one set of arguments; rd_file is the file at svg_path
    \*      and rd_locals the local values of the last call
    rd_kind, rd_input, rd_view, rd_target, rd_clip, rd_file, rd_calls,
    rd_raised, rd_locals

renderVars == <<rd_kind, rd_input, rd_view, rd_target, rd_clip, rd_file,
                rd_calls, rd_raised, rd_locals>>
drawVars   == <<ps_params, ps_sections, ps_waterlines, mp_point, mp_view,
                mp_out, sb_extents, sb_out, renderVars>>
fnVars     == <<it_frac, it_out, sp_hw, sp_hd, sp_pts, sl_in, sl_out, drawVars>>
designVars == <<pc, params, i, outer_wires, inner_wires, loft_calls, inner_loft,
                vessel, log, kernel_calls, kernel_failed, fatal, saved>>
linesVars  == <<l_pc, l_params, l_shapes, l_sections, l_waterlines, l_k,
                l_groups, l_attempted, l_caught, l_result, l_exit, l_fatal>>
vars       == <<fnVars, designVars, linesVars>>

---------------------------------------------------------------------------
(* Exact rational arithmetic standing for Python's float operators.        *)

Abs(x) == IF x < 0 THEN -x ELSE x

RECURSIVE GCD(_, _)
GCD(a, b) == IF b = 0 THEN a ELSE GCD(b, a % b)

Rat(n, d) ==
    LET g == GCD(Abs(n), Abs(d))
        s == IF d < 0 THEN -1 ELSE 1
    IN  <<(s * n) \div g, (s * d) \div g>>

RInt(n)    == <<n, 1>>
RAdd(a, b) == Rat(a[1] * b[2] + b[1] * a[2], a[2] * b[2])
RNeg(a)    == <<-a[1], a[2]>>
RSub(a, b) == RAdd(a, RNeg(b))
RMul(a, b) == Rat(a[1] * b[1], a[2] * b[2])
RDiv(a, b) == Rat(a[1] * b[2], a[2] * b[1])
RLe(a, b)  == a[1] * b[2] <= b[1] * a[2]
RLt(a, b)  == a[1] * b[2] < b[1] * a[2]
RMax(a, b) == IF RLe(b, a) THEN a ELSE b
RMin(a, b) == IF RLe(a, b) THEN a ELSE b

---------------------------------------------------------------------------
(* Bounds of the checked input sets.                                       *)

MaxDen       == 20   \* interp_table arguments p/q with 1 <= q <= MaxDen
MaxDim       == 10   \* hull_section_points arguments up to MaxDim
MaxShapes    == 3    \* slice_shapes_safely: at most MaxShapes shapes
MaxSections  == 12   \* largest requested station count
MaxThickness == 1    \* small hull thicknesses 0..MaxThickness
MaxStations  == 2    \* lines run: 'hull_sections' in 0..MaxStations
MaxCollected == 2    \* lines run: at most MaxCollected collected shapes

---------------------------------------------------------------------------
(* design/main.py: the longitudinal shape table and its interpolation.     *)

hull_shape_table ==
    << <<Rat(0, 100),   Rat(60, 100),  Rat(70, 100)>>,
       <<Rat(15, 100),  Rat(75, 100),  Rat(85, 100)>>,
       <<Rat(30, 100),  Rat(90, 100),  Rat(95, 100)>>,
       <<Rat(45, 100),  Rat(100, 100), Rat(100, 100)>>,
       <<Rat(55, 100),  Rat(100, 100), Rat(100, 100)>>,
       <<Rat(70, 100),  Rat(80, 100),  Rat(90, 100)>>,
       <<Rat(85, 100),  Rat(45, 100),  Rat(65, 100)>>,
       <<Rat(95, 100),  Rat(15, 100),  Rat(40, 100)>>,
       <<Rat(100, 100), Rat(2, 100),   Rat(20, 100)>> >>

TableLen == Len(hull_shape_table)

\* Lines 179-180: the linear interpolation inside bracket j (1-based).
interp_bracket(frac, j) ==
    LET f0 == hull_shape_table[j][1]
        b0 == hull_shape_table[j][2]
        d0 == hull_shape_table[j][3]
        f1 == hull_shape_table[j + 1][1]
        b1 == hull_shape_table[j + 1][2]
        d1 == hull_shape_table[j + 1][3]
        t  == RDiv(RSub(frac, f0), RSub(f1, f0))
    IN  <<RAdd(b0, RMul(t, RSub(b1, b0))), RAdd(d0, RMul(t, RSub(d1, d0)))>>

\* A scan that interpolates in the first bracket without testing it.
interp_scan_unbracketed(frac, j) == interp_bracket(frac, 1)

\* Lines 175-181: the for loop over the brackets, first match wins.
RECURSIVE interp_scan(_, _)
interp_scan(frac, j) ==
    IF j > TableLen - 1
    THEN <<hull_shape_table[TableLen][2], hull_shape_table[TableLen][3]>>
    ELSE IF RLe(hull_shape_table[j][1], frac)
            /\ RLe(frac, hull_shape_table[j + 1][1])
         THEN interp_bracket(frac, j)
         ELSE interp_scan(frac, j + 1)

\* Lines 169-181.
interp_table(frac) ==
    IF RLe(frac, hull_shape_table[1][1])
    THEN <<hull_shape_table[1][2], hull_shape_table[1][3]>>
    ELSE IF RLe(hull_shape_table[TableLen][1], frac)
         THEN <<hull_shape_table[TableLen][2], hull_shape_table[TableLen][3]>>
         ELSE interp_scan(frac, 1)

---------------------------------------------------------------------------
(* design/main.py: the U-shaped section profile.                           *)

n_pts == 12

\* math.sin(k * pi / 24) for k = 0..12, to four decimals.
SinTable ==
    << Rat(0, 10000),    Rat(1305, 10000), Rat(2588, 10000), Rat(3827, 10000),
       Rat(5000, 10000), Rat(6088, 10000), Rat(7071, 10000), Rat(7934, 10000),
       Rat(8660, 10000), Rat(9239, 10000), Rat(9659, 10000), Rat(9914, 10000),
       Rat(10000, 10000) >>

\* math.sin(t * math.pi / 2) for t = k / n_pts.
SinQuarter(t) == SinTable[((t[1] * n_pts) \div t[2]) + 1]

\* A branch whose depth runs the other way: z = -hd * t.
stbd_point_inverted(hw, hd, k) ==
    LET t == Rat(k, n_pts)
    IN  <<RMul(hw, SinQuarter(t)), RMul(RNeg(hd), t)>>

\* Lines 114-119: the starboard branch, keel (k = 0) to sheer (k = n_pts).
stbd_point(hw, hd, k) ==
    LET t == Rat(k, n_pts)
    IN  <<RMul(hw, SinQuarter(t)), RMul(RNeg(hd), RSub(RInt(1), t))>>

stbd_branch(hw, hd) == [k \in 1..(n_pts + 1) |-> stbd_point(hw, hd, k - 1)]

Reversed(s) == [k \in 1..Len(s) |-> s[Len(s) + 1 - k]]

\* A mirror that keeps the centreline point (stbd instead of stbd[1:]).
port_branch_keeps_keel(stbd) ==
    [k \in 1..Len(stbd) |-> <<RNeg(Reversed(stbd)[k][1]), Reversed(stbd)[k][2]>>]

\* Line 122: port = [(-x, z) for x, z in reversed(stbd[1:])].
port_branch(stbd) ==
    LET r == Reversed(Tail(stbd))
    IN  [k \in 1..Len(r) |-> <<RNeg(r[k][1]), r[k][2]>>]

\* Lines 106-123.
hull_section_points(hw, hd) ==
    LET stbd == stbd_branch(hw, hd)
    IN  port_branch(stbd) \o stbd

---------------------------------------------------------------------------
(* lines/__main__.py: slicing a list of shapes, one shape at a time.       *)
(* The kernel's answer for one shape is an exception (ok = FALSE) or a     *)
(* list of wires, possibly empty.                                          *)

KernelAnswers ==
    {[ok |-> FALSE, wires |-> <<>>]}
        \cup {[ok |-> TRUE, wires |-> w] :
                w \in {<<>>, <<"a">>, <<"b">>, <<"a", "b">>}}

\* A loop without the try/except: the first failing slice ends the call.
RECURSIVE slice_loop_unprotected(_, _, _, _)
slice_loop_unprotected(answers, k, all_wires, warnings) ==
    IF k > Len(answers)
    THEN [raised |-> FALSE, wires |-> all_wires, warnings |-> warnings]
    ELSE IF answers[k].ok
         THEN slice_loop_unprotected(answers, k + 1,
                  IF answers[k].wires # <<>>
                  THEN all_wires \o answers[k].wires ELSE all_wires,
                  warnings)
         ELSE [raised |-> TRUE, wires |-> <<>>, warnings |-> warnings]

\* Lines 111-117: the for loop; k is the 1-based position in shapes.
RECURSIVE slice_loop(_, _, _, _)
slice_loop(answers, k, all_wires, warnings) ==
    IF k > Len(answers)
    THEN [raised |-> FALSE, wires |-> all_wires, warnings |-> warnings]
    ELSE IF answers[k].ok
         THEN slice_loop(answers, k + 1,
                  IF answers[k].wires # <<>>
                  THEN all_wires \o answers[k].wires ELSE all_wires,
                  warnings)
         ELSE slice_loop(answers, k + 1, all_wires, Append(warnings, k - 1))

\* Lines 108-118.
slice_shapes_safely(answers) == slice_loop(answers, 1, <<>>, <<>>)

---------------------------------------------------------------------------
(* Specifications that apply one function to inputs from bounded sets.     *)

NotCalled == <<>>

\* No file at svg_path.
NoFile == <<>>

\* clip_z = None; a clip value c is <<c>>.
NoClip == <<>>

PositionsIdle ==
    ps_params = <<>> /\ ps_sections = NotCalled /\ ps_waterlines = NotCalled

MapPointIdle == mp_point = <<0, 0, 0>> /\ mp_view = "XZ" /\ mp_out = NotCalled

ScaleBarIdle == sb_extents = <<RInt(0), RInt(0)>> /\ sb_out = NotCalled

RenderIdle ==
    /\ rd_kind = "none" /\ rd_input = <<>> /\ rd_view = "XZ"
    /\ rd_target = 0 /\ rd_clip = NoClip /\ rd_file = NoFile
    /\ rd_calls = 0 /\ rd_raised = FALSE /\ rd_locals = NotCalled

DrawIdle == PositionsIdle /\ MapPointIdle /\ ScaleBarIdle /\ RenderIdle

FnIdle ==
    /\ it_frac = RInt(0) /\ it_out = NotCalled
    /\ sp_hw = RInt(0) /\ sp_hd = RInt(0) /\ sp_pts = NotCalled
    /\ sl_in = <<>> /\ sl_out = NotCalled
    /\ DrawIdle

LinesIdle ==
    /\ l_pc = "idle" /\ l_params = <<>> /\ l_shapes = 0
    /\ l_sections = <<>> /\ l_waterlines = <<>> /\ l_k = 0 /\ l_groups = 0
    /\ l_attempted = {} /\ l_caught = {}
    /\ l_result = "none" /\ l_exit = -1 /\ l_fatal = "none"

DesignIdle ==
    /\ pc = "idle" /\ params = <<>> /\ i = 0
    /\ outer_wires = <<>> /\ inner_wires = <<>> /\ loft_calls = <<>>
    /\ inner_loft = "undefined"
    /\ vessel = <<>> /\ log = <<>> /\ kernel_calls = 0 /\ kernel_failed = {}
    /\ fatal = [kind |-> "none", at |-> "none"] /\ saved = FALSE

\* ---- interp_table
Fractions == {Rat(p, q) : p \in (-MaxDen)..(2 * MaxDen), q \in 1..MaxDen}

InitInterp ==
    /\ it_frac \in Fractions /\ it_out = NotCalled
    /\ sp_hw = RInt(0) /\ sp_hd = RInt(0) /\ sp_pts = NotCalled
    /\ sl_in = <<>> /\ sl_out = NotCalled
    /\ DesignIdle /\ LinesIdle /\ DrawIdle

InterpCall ==
    /\ it_out = NotCalled
    /\ it_out' = interp_table(it_frac)
    /\ UNCHANGED <<it_frac, sp_hw, sp_hd, sp_pts, sl_in, sl_out, designVars,
                   linesVars, drawVars>>

SpecInterp == InitInterp /\ [][InterpCall]_vars

\* ---- hull_section_points
HalfWidths == {Rat(a, 2) : a \in 0..MaxDim}
HalfDepths == {RInt(b) : b \in 0..MaxDim}

InitSection ==
    /\ sp_hw \in HalfWidths /\ sp_hd \in HalfDepths /\ sp_pts = NotCalled
    /\ it_frac = RInt(0) /\ it_out = NotCalled
    /\ sl_in = <<>> /\ sl_out = NotCalled
    /\ DesignIdle /\ LinesIdle /\ DrawIdle

SectionCall ==
    /\ sp_pts = NotCalled
    /\ sp_pts' = hull_section_points(sp_hw, sp_hd)
    /\ UNCHANGED <<it_frac, it_out, sp_hw, sp_hd, sl_in, sl_out, designVars,
                   linesVars, drawVars>>

SpecSection == InitSection /\ [][SectionCall]_vars

\* ---- slice_shapes_safely
RECURSIVE SeqsUpTo(_, _)
SeqsUpTo(S, n) ==
    IF n = 0 THEN {<<>>}
    ELSE LET shorter == SeqsUpTo(S, n - 1)
         IN  shorter \cup {Append(s, x) : s \in shorter, x \in S}

InitSlice ==
    /\ sl_in \in SeqsUpTo(KernelAnswers, MaxShapes) /\ sl_out = NotCalled
    /\ it_frac = RInt(0) /\ it_out = NotCalled
    /\ sp_hw = RInt(0) /\ sp_hd = RInt(0) /\ sp_pts = NotCalled
    /\ DesignIdle /\ LinesIdle /\ DrawIdle

SliceCall ==
    /\ sl_out = NotCalled
    /\ sl_out' = slice_shapes_safely(sl_in)
    /\ UNCHANGED <<it_frac, it_out, sp_hw, sp_hd, sp_pts, sl_in, designVars,
                   linesVars, drawVars>>

SpecSlice == InitSlice /\ [][SliceCall]_vars

---------------------------------------------------------------------------
(* design/main.py: the design run.  The script runs top to bottom; pc is   *)
(* the section it is about to execute.  An uncaught exception ends the run *)
(* (pc = "aborted") without saving the document.                           *)

HullKeys   == {"hull_length", "hull_beam", "hull_depth", "hull_thickness"}
KeelKeys   == {"keel_root_chord", "keel_tip_chord", "keel_span",
               "keel_root_thickness", "keel_tip_thickness", "keel_sweep_deg"}
RudderKeys == {"rudder_chord", "rudder_span", "rudder_thickness",
               "rudder_y_position"}
StockKeys  == {"rudder_stock_diameter"}
MastKeys   == {"mast_height", "mast_diameter", "mast_thickness",
               "mast_y_position"}
BoomKeys   == {"boom_length", "boom_diameter", "boom_thickness",
               "boom_height_above_deck"}
RequiredKeys ==
    HullKeys \cup {"deck_level"} \cup KeelKeys \cup RudderKeys \cup StockKeys
        \cup MastKeys \cup BoomKeys

HasKeys(keys) == keys \subseteq DOMAIN params

DefaultSections == 7
MinSections     == 11

\* Lines 97-104.
hull_length    == RInt(params["hull_length"])
hull_beam      == RInt(params["hull_beam"])
hull_depth     == RInt(params["hull_depth"])
hull_thickness == RInt(params["hull_thickness"])
half_length    == RDiv(hull_length, RInt(2))
half_beam      == RDiv(hull_beam, RInt(2))

\* Line 101 alone: the requested count, without the minimum of line 185.
num_sections_requested ==
    IF "hull_sections" \in DOMAIN params
    THEN params["hull_sections"] ELSE DefaultSections

\* Lines 101 and 185: params.get('hull_sections', 7), then max(., 11).
num_sections ==
    LET requested == IF "hull_sections" \in DOMAIN params
                     THEN params["hull_sections"] ELSE DefaultSections
    IN  IF requested >= MinSections THEN requested ELSE MinSections

\* Lines 126-139: the closed wire through hull_section_points(hw, hd) at
\* y_pos; the wire is determined by these three numbers.
hull_section_wire(y_pos, hw, hd) == [y |-> y_pos, hw |-> hw, hd |-> hd]

\* An inner wire without the inward offset.
hull_section_wire_inner_unoffset(y_pos, hw, hd, thickness) ==
    hull_section_wire(y_pos, hw, hd)

\* Lines 142-149.
hull_section_wire_inner(y_pos, hw, hd, thickness) ==
    LET inner_hw == RMax(RSub(hw, thickness), thickness)
        inner_hd == RMax(RSub(hd, thickness), thickness)
    IN  hull_section_wire(y_pos, inner_hw, inner_hd)

\* Line 189.
station_frac(k) == RDiv(RInt(k), RInt(num_sections - 1))

\* A position measured from the stern end (without the -half_length).
station_y_from_stern(k) == RMul(station_frac(k), hull_length)

\* Line 190.
station_y(k) == RAdd(RNeg(half_length), RMul(station_frac(k), hull_length))

\* A half-width without the 2 * thickness floor.
station_hw_unfloored(k) == RMul(half_beam, interp_table(station_frac(k))[1])

\* Lines 191-192.
station_hw(k) ==
    RMax(RMul(half_beam, interp_table(station_frac(k))[1]),
         RMul(hull_thickness, RInt(2)))

\* Lines 191 and 193.
station_hd(k) ==
    RMax(RMul(hull_depth, interp_table(station_frac(k))[2]),
         RMul(hull_thickness, RInt(2)))

NoFatal == [kind |-> "none", at |-> "none"]

Abort(kind, at) == pc' = "aborted" /\ fatal' = [kind |-> kind, at |-> at]

NullShape  == [kind |-> "null", size |-> <<>>]
Solid(kind) == [kind |-> kind, size |-> <<>>]
\* Part.makeBox(length, width, height, origin): the three edge lengths.
Box(dx, dy, dz) == [kind |-> "box", size |-> <<dx, dy, dz>>]

Part(name, shape, placed) == [name |-> name, shape |-> shape, placed |-> placed]

\* Lines 213-214.
HullBox == Box(hull_beam, hull_length, hull_depth)

\* Lines 95-104: the hull parameters are read; a missing key raises KeyError.
ReadHullParams ==
    /\ pc = "start"
    /\ IF HasKeys(HullKeys)
       THEN pc' = "stations" /\ UNCHANGED fatal
       ELSE Abort("KeyError", "hull_params")
    /\ UNCHANGED <<params, i, outer_wires, inner_wires, loft_calls, inner_loft,
                   vessel, log, kernel_calls, kernel_failed, saved, fnVars, linesVars>>

\* Lines 188-196: one iteration of the station loop.
Station ==
    /\ pc = "stations"
    /\ i < num_sections
    /\ outer_wires' = Append(outer_wires,
           hull_section_wire(station_y(i), station_hw(i), station_hd(i)))
    /\ inner_wires' = Append(inner_wires,
           hull_section_wire_inner(station_y(i), station_hw(i), station_hd(i),
                                   hull_thickness))
    /\ kernel_calls' = kernel_calls + 2
    /\ i' = i + 1
    /\ pc' = IF i + 1 < num_sections THEN "stations" ELSE "hull"
    /\ UNCHANGED <<params, loft_calls, inner_loft, vessel, log, kernel_failed,
                   fatal, saved, fnVars, linesVars>>

\* The statements of the protected block, lines 200-210, in order.
HullSteps == <<"outer_loft", "inner_loft", "cut", "newObject", "Shape",
               "Placement", "Volume">>
\* The statements that are kernel or document calls and may raise.
HullFailPoints == {"outer_loft", "inner_loft", "cut", "newObject", "Shape",
                   "Volume"}

StepNo(f) ==
    IF f = "none" THEN Len(HullSteps) + 1
    ELSE CHOOSE k \in 1..Len(HullSteps) : HullSteps[k] = f

\* The first statement of the protected block that raises: the one the
\* kernel fails at, or the Placement line when 'deck_level' is missing.
HullRaisesAt(f) ==
    IF StepNo(f) < StepNo("Placement") THEN StepNo(f)
    ELSE IF ~HasKeys({"deck_level"}) THEN StepNo("Placement")
    ELSE StepNo(f)

\* Lines 198-219: loft, subtract, add the hull; on any exception the box.
HullLoft ==
    /\ pc = "hull"
    /\ \E f \in HullFailPoints \cup {"none"} :
        LET e      == HullRaisesAt(f)
            raised == e <= Len(HullSteps)
            tried  == IF e > StepNo("newObject")
                      THEN <<Part("Hull_Shell__fiberglass",
                                  IF e > StepNo("Shape")
                                  THEN Solid("hull_shell") ELSE NullShape,
                                  e > StepNo("Placement"))>>
                      ELSE <<>>
            lofts  == IF e > StepNo("outer_loft")
                      THEN <<outer_wires, inner_wires>> ELSE <<outer_wires>>
            ncalls == IF e >= StepNo("cut") THEN 3 ELSE e
        IN  /\ loft_calls' = lofts
            /\ inner_loft' = IF e > StepNo("inner_loft")
                             THEN "defined" ELSE "undefined"
            /\ kernel_failed' =
                  IF f # "none" /\ e = StepNo(f)
                  THEN kernel_failed \cup {<<"hull", f>>} ELSE kernel_failed
            /\ IF ~raised
               THEN /\ vessel' = vessel \o tried
                    /\ kernel_calls' = kernel_calls + ncalls
                    /\ pc' = "deck"
                    /\ UNCHANGED <<log, fatal>>
               ELSE /\ log' = Append(log, "Warning: Hull loft failed")
                    /\ kernel_calls' = kernel_calls + ncalls + 1
                    /\ vessel' = vessel \o tried \o
                          <<Part("Hull_Shell__fiberglass", HullBox,
                                 HasKeys({"deck_level"}))>>
                    /\ IF HasKeys({"deck_level"})
                       THEN pc' = "deck" /\ UNCHANGED fatal
                       ELSE Abort("KeyError", "hull")
    /\ UNCHANGED <<params, i, outer_wires, inner_wires, saved, fnVars, linesVars>>

\* Lines 225-244.
Deck ==
    /\ pc = "deck"
    /\ kernel_calls' = kernel_calls + 3
    /\ IF HasKeys({"deck_level"})
       THEN /\ vessel' = Append(vessel,
                   Part("Deck__fiberglass", Solid("deck"), TRUE))
            /\ pc' = "keel" /\ UNCHANGED fatal
       ELSE /\ vessel' = Append(vessel,
                   Part("Deck__fiberglass", Solid("deck"), FALSE))
            /\ Abort("KeyError", "deck")
    /\ UNCHANGED <<params, i, outer_wires, inner_wires, loft_calls, inner_loft,
                   log, kernel_failed, saved, fnVars, linesVars>>

\* Lines 285-290, loft fails: warning, box fallback, then lines 292-299.
KeelLoftFails ==
    /\ pc = "keel"
    /\ HasKeys(KeelKeys)
    /\ kernel_calls' = kernel_calls + 4
    /\ kernel_failed' = kernel_failed \cup {<<"keel", "loft">>}
    /\ log' = Append(log, "Warning: Keel loft failed")
    /\ vessel' = Append(vessel,
           Part("Keel__lead",
                Box(RInt(params["keel_root_thickness"]),
                    RInt(params["keel_root_chord"]),
                    RInt(params["keel_span"])),
                TRUE))
    /\ pc' = "rudder" /\ UNCHANGED fatal

\* Lines 250-299.
Keel ==
    /\ pc = "keel"
    /\ \/ /\ ~HasKeys(KeelKeys)
          /\ Abort("KeyError", "keel")
          /\ UNCHANGED <<vessel, log, kernel_calls, kernel_failed>>
       \/ /\ HasKeys(KeelKeys)
          /\ kernel_calls' = kernel_calls + 3
          /\ vessel' = Append(vessel, Part("Keel__lead", Solid("keel_loft"), TRUE))
          /\ pc' = "rudder"
          /\ UNCHANGED <<log, kernel_failed, fatal>>
       \/ KeelLoftFails
    /\ UNCHANGED <<params, i, outer_wires, inner_wires, loft_calls, inner_loft,
                   saved, fnVars, linesVars>>

\* Lines 305-319.
Rudder ==
    /\ pc = "rudder"
    /\ IF HasKeys(RudderKeys)
       THEN /\ kernel_calls' = kernel_calls + 1
            /\ vessel' = Append(vessel,
                   Part("Rudder_Blade__wood", Solid("rudder_box"), TRUE))
            /\ pc' = "stock" /\ UNCHANGED fatal
       ELSE Abort("KeyError", "rudder") /\ UNCHANGED <<kernel_calls, vessel>>
    /\ UNCHANGED <<params, i, outer_wires, inner_wires, loft_calls, inner_loft,
                   log, kernel_failed, saved, fnVars, linesVars>>

\* Lines 325-336.
Stock ==
    /\ pc = "stock"
    /\ IF HasKeys(StockKeys)
       THEN /\ kernel_calls' = kernel_calls + 1
            /\ vessel' = Append(vessel,
                   Part("Rudder_Stock__stainless_steel", Solid("cylinder"), TRUE))
            /\ pc' = "mast" /\ UNCHANGED fatal
       ELSE Abort("KeyError", "stock") /\ UNCHANGED <<kernel_calls, vessel>>
    /\ UNCHANGED <<params, i, outer_wires, inner_wires, loft_calls, inner_loft,
                   log, kernel_failed, saved, fnVars, linesVars>>

\* Lines 348-356 for the mast, 367-376 for the boom: two cylinders, the
\* subtraction (not protected: its exception ends the run), the new part.
Tube(stage, name, next) ==
    /\ kernel_calls' = kernel_calls + 3
    /\ \/ /\ vessel' = Append(vessel, Part(name, Solid("tube"), TRUE))
          /\ pc' = next
          /\ UNCHANGED <<kernel_failed, fatal>>
       \/ /\ kernel_failed' = kernel_failed \cup {<<stage, "cut">>}
          /\ Abort("KernelError", stage)
          /\ UNCHANGED vessel

\* Lines 342-356.
Mast ==
    /\ pc = "mast"
    /\ IF HasKeys(MastKeys)
       THEN Tube("mast", "Mast__aluminum", "boom")
       ELSE /\ Abort("KeyError", "mast")
            /\ UNCHANGED <<kernel_calls, kernel_failed, vessel>>
    /\ UNCHANGED <<params, i, outer_wires, inner_wires, loft_calls, inner_loft,
                   log, saved, fnVars, linesVars>>

\* Lines 362-376.
Boom ==
    /\ pc = "boom"
    /\ IF HasKeys(BoomKeys)
       THEN Tube("boom", "Boom__aluminum", "air")
       ELSE /\ Abort("KeyError", "boom")
            /\ UNCHANGED <<kernel_calls, kernel_failed, vessel>>
    /\ UNCHANGED <<params, i, outer_wires, inner_wires, loft_calls, inner_loft,
                   log, saved, fnVars, linesVars>>

\* An air stage whose NameError on an unbound inner_loft is not caught.
AirUncaught ==
    /\ pc = "air"
    /\ IF inner_loft = "defined"
       THEN /\ vessel' = Append(vessel,
                   Part("Air_Inside__air", Solid("inner_loft"), TRUE))
            /\ pc' = "finalize"
            /\ UNCHANGED <<kernel_calls, fatal>>
       ELSE /\ Abort("NameError", "air")
            /\ UNCHANGED <<kernel_calls, vessel>>
    /\ UNCHANGED <<params, i, outer_wires, inner_wires, loft_calls, inner_loft,
                   log, kernel_failed, saved, fnVars, linesVars>>

\* Lines 382-398: the inner loft, or a box when the name is unbound.
Air ==
    /\ pc = "air"
    /\ IF inner_loft = "defined"
       THEN /\ vessel' = Append(vessel,
                   Part("Air_Inside__air", Solid("inner_loft"), TRUE))
            /\ UNCHANGED kernel_calls
       ELSE /\ vessel' = Append(vessel,
                   Part("Air_Inside__air",
                        Box(RMul(half_beam, Rat(12, 10)),
                            RMul(half_length, Rat(14, 10)),
                            RMul(hull_depth, Rat(5, 10))),
                        TRUE))
            /\ kernel_calls' = kernel_calls + 1
    /\ pc' = "finalize"
    /\ UNCHANGED <<params, i, outer_wires, inner_wires, loft_calls, inner_loft,
                   log, kernel_failed, fatal, saved, fnVars, linesVars>>

\* Lines 404-440: recompute, summary, save, exit 0.
Finalize ==
    /\ pc = "finalize"
    /\ saved' = TRUE
    /\ pc' = "done"
    /\ UNCHANGED <<params, i, outer_wires, inner_wires, loft_calls, inner_loft,
                   vessel, log, kernel_calls, kernel_failed, fatal, fnVars, linesVars>>

\* ---- the parameter files the run is checked on
Scenario == <<6000, 2200, 900, 8>>

HullDims ==
    {<<l, b, d, t>> : l \in {1, 6000}, b \in {0, 100, 2200}, d \in {0, 900},
                      t \in (0..MaxThickness) \cup {8}}

\* -1: the file has no 'hull_sections' key.
SectionChoices == {-1, 3, 7, 11, MaxSections}

ParamsOf(dims, sections, missing) ==
    [k \in (RequiredKeys \ {missing})
            \cup (IF sections >= 0 THEN {"hull_sections"} ELSE {}) |->
        CASE k = "hull_length"    -> dims[1]
          [] k = "hull_beam"      -> dims[2]
          [] k = "hull_depth"     -> dims[3]
          [] k = "hull_thickness" -> dims[4]
          [] k = "hull_sections"  -> sections
          [] k = "deck_level"     -> dims[3]
          [] OTHER                -> 1]

InitDesign ==
    /\ FnIdle
    /\ \E dims \in HullDims, s \in SectionChoices,
          m \in RequiredKeys \cup {"none"} :
          /\ m # "none" => dims = Scenario
          /\ params = ParamsOf(dims, s, m)
    /\ pc = "start" /\ i = 0
    /\ outer_wires = <<>> /\ inner_wires = <<>> /\ loft_calls = <<>>
    /\ inner_loft = "undefined"
    /\ vessel = <<>> /\ log = <<>> /\ kernel_calls = 0 /\ kernel_failed = {}
    /\ fatal = NoFatal /\ saved = FALSE
    /\ LinesIdle

Next ==
    \/ ReadHullParams
    \/ Station
    \/ HullLoft
    \/ Deck
    \/ Keel
    \/ Rudder
    \/ Stock
    \/ Mast
    \/ Boom
    \/ Air
    \/ Finalize

Spec == InitDesign /\ [][Next]_vars

---------------------------------------------------------------------------
(* lines/__main__.py: slice positions.                                     *)

Get(p, key, default) == IF key \in DOMAIN p THEN p[key] ELSE default

DefaultLoa        == 6100
DefaultHullDepth  == 900
DefaultDeckLevel  == 900
DefaultDraft      == 300
DefaultFreeboard  == 600

\* An iteration without the offset of line 64.
section_position_plain(hull_len, count, k) ==
    <<k, RAdd(RNeg(RDiv(hull_len, RInt(2))),
              RDiv(RMul(RInt(k), hull_len), RInt(count - 1)))>>

\* Lines 60-65: iteration k of the loop, for k = 0..num_sections-1.
section_position(hull_len, count, k) ==
    LET y == RAdd(RNeg(RDiv(hull_len, RInt(2))),
                  RDiv(RMul(RInt(k), hull_len), RInt(count - 1)))
        y_offset == IF RLt(<<Abs(y[1]), y[2]>>, RInt(1))
                    THEN RAdd(y, RInt(1)) ELSE y
    IN  <<k, y_offset>>

\* Lines 48-67.  The name "stn_k" is the number k.  With a single section
\* the division of line 62 is by zero and raises ZeroDivisionError.
get_section_positions(p) ==
    LET hull_len == RInt(Get(p, "hull_length", Get(p, "loa", DefaultLoa)))
        num      == Get(p, "hull_sections", DefaultSections)
    IN  IF num = 1
        THEN [raised |-> TRUE, positions |-> <<>>]
        ELSE [raised |-> FALSE,
              positions |-> [k \in 1..(IF num > 0 THEN num ELSE 0) |->
                                section_position(hull_len, num, k - 1)]]

\* The list left in the order of the appends.
Unsorted(list) == list

\* list.sort(key = z): a stable insertion of one entry.
RECURSIVE InsertByZ(_, _)
InsertByZ(sorted, e) ==
    IF sorted = <<>> THEN <<e>>
    ELSE IF RLt(e[2], sorted[Len(sorted)][2])
         THEN Append(InsertByZ(SubSeq(sorted, 1, Len(sorted) - 1), e),
                     sorted[Len(sorted)])
         ELSE Append(sorted, e)

RECURSIVE SortByZ(_)
SortByZ(list) ==
    IF list = <<>> THEN <<>>
    ELSE InsertByZ(SortByZ(SubSeq(list, 1, Len(list) - 1)), list[Len(list)])

\* Lines 70-105.
get_waterline_positions(p) ==
    LET deck_level == RInt(Get(p, "deck_level", DefaultDeckLevel))
        draft      == RInt(Get(p, "hull_draft", Get(p, "draft", DefaultDraft)))
        freeboard  == RInt(Get(p, "freeboard", DefaultFreeboard))
        below(k)   == RMul(RInt(-k), RDiv(draft, RInt(3)))
        above(k)   == RMul(RInt(k), RDiv(freeboard, RInt(3)))
        positions  ==
            <<<<"waterline", RInt(1)>>,
              <<"wl_below_1", below(1)>>, <<"wl_below_2", below(2)>>>>
            \o (IF RLt(above(1), deck_level)
                THEN <<<<"wl_above_1", above(1)>>>> ELSE <<>>)
            \o (IF RLt(above(2), deck_level)
                THEN <<<<"wl_above_2", above(2)>>>> ELSE <<>>)
            \o <<<<"deck", RSub(deck_level, RInt(2))>>>>
    IN  SortByZ(positions)

---------------------------------------------------------------------------
(* lines/__main__.py: create_lines_plan and the main block.  A stage is    *)
(* one try block: <<"profile", 0>>, <<"section", k>>, <<"bodyplan", 0>>,   *)
(* <<"waterline", k>>, <<"fullbreadth", 0>>.  l_caught holds the stages    *)
(* whose except clause ran ("Error exporting ...").  Inside a try block    *)
(* any statement may raise: the slicing statement, or an export call       *)
(* (rendering or writing the drawing).  The drawings themselves are not    *)
(* part of the state.                                                      *)

\* What the kernel may answer when the collected shapes are sliced.
RECURSIVE SeqsOfLen(_, _)
SeqsOfLen(S, n) ==
    IF n = 0 THEN {<<>>}
    ELSE {Append(q, x) : q \in SeqsOfLen(S, n - 1), x \in S}

LinesAnswers ==
    {[ok |-> FALSE, wires |-> <<>>], [ok |-> TRUE, wires |-> <<>>],
     [ok |-> TRUE, wires |-> <<"a">>]}

\* The wires a stage gets for one plane: slice_shapes_safely on the
\* collected shapes, for every answer of the kernel.
SliceResults == {slice_shapes_safely(a).wires : a \in SeqsOfLen(LinesAnswers, l_shapes)}

\* Lines 409-438: open the design, collect the shapes.
LStart ==
    /\ l_pc = "start"
    /\ IF l_shapes = 0
       THEN l_result' = "False" /\ l_pc' = "returned"
       ELSE l_pc' = "profile" /\ UNCHANGED l_result
    /\ UNCHANGED <<l_params, l_shapes, l_sections, l_waterlines, l_k, l_groups,
                   l_attempted, l_caught, l_exit, l_fatal,
                   fnVars, designVars>>

\* The except clause of a stage: the error is printed, the run goes on.
Caught(stage, next) ==
    /\ l_caught' = l_caught \cup {stage}
    /\ l_pc' = next
    /\ UNCHANGED <<l_result, l_fatal>>

\* A stage without a try block: the exception leaves create_lines_plan.
Uncaught(stage, next) ==
    /\ l_caught' = l_caught
    /\ l_pc' = "returned"
    /\ l_result' = "raised"
    /\ l_fatal' = "stage"

\* Lines 443-462.
LProfile ==
    /\ l_pc = "profile"
    /\ l_attempted' = l_attempted \cup {<<"profile", 0>>}
    /\ \E wires \in SliceResults, r \in {"none", "slice", "full", "clipped"} :
          \/ /\ r = "slice"
             /\ Caught(<<"profile", 0>>, "positions")
          \/ /\ r # "slice" /\ wires = <<>>
             /\ l_pc' = "positions"
             /\ UNCHANGED <<l_caught, l_result, l_fatal>>
          \/ /\ r = "full" /\ wires # <<>>
             /\ Caught(<<"profile", 0>>, "positions")
          \/ /\ r = "clipped" /\ wires # <<>>
             /\ Caught(<<"profile", 0>>, "positions")
          \/ /\ r = "none" /\ wires # <<>>
             /\ l_pc' = "positions"
             /\ UNCHANGED <<l_caught, l_result, l_fatal>>
    /\ UNCHANGED <<l_params, l_shapes, l_sections, l_waterlines, l_k, l_groups,
                   l_exit, fnVars, designVars>>

\* Lines 467-468: outside every try block.
LSectionPositions ==
    /\ l_pc = "positions"
    /\ LET got == get_section_positions(l_params)
       IN  IF got.raised
           THEN /\ l_result' = "raised" /\ l_fatal' = "positions"
                /\ l_pc' = "returned"
                /\ UNCHANGED l_sections
           ELSE /\ l_sections' = got.positions
                /\ l_pc' = IF got.positions = <<>> THEN "body_slice" ELSE "section"
                /\ UNCHANGED <<l_result, l_fatal>>
    /\ l_k' = 0
    /\ UNCHANGED <<l_params, l_shapes, l_waterlines, l_groups, l_attempted,
                   l_caught, l_exit, fnVars, designVars>>

\* One pass of a per-plane loop: slice, export one drawing when there are
\* wires, with the whole body in a try block.
SingleStage(stage, next) ==
    /\ l_attempted' = l_attempted \cup {stage}
    /\ \E wires \in SliceResults, r \in {"none", "slice", "export"} :
          \/ /\ r = "slice" \/ (r = "export" /\ wires # <<>>)
             /\ Caught(stage, next)
          \/ /\ r # "slice" /\ wires = <<>>
             /\ l_pc' = next
             /\ UNCHANGED <<l_caught, l_result, l_fatal>>
          \/ /\ r = "none" /\ wires # <<>>
             /\ l_pc' = next
             /\ UNCHANGED <<l_caught, l_result, l_fatal>>

\* Lines 471-485: the station at position l_k of section_positions.
LSection ==
    /\ l_pc = "section"
    /\ l_k < Len(l_sections)
    /\ SingleStage(<<"section", l_sections[l_k + 1][1]>>,
                   IF l_k + 1 < Len(l_sections) THEN "section" ELSE "body_slice")
    /\ l_k' = IF l_k + 1 < Len(l_sections) THEN l_k + 1 ELSE 0
    /\ l_groups' = 0
    /\ UNCHANGED <<l_params, l_shapes, l_sections, l_waterlines, l_exit,
                   fnVars, designVars>>

\* One pass of a gathering loop inside a combined stage's try block.
GatherStep(stage, planes, here, export, next) ==
    /\ l_k < Len(planes)
    /\ l_attempted' = l_attempted \cup {stage}
    /\ \E wires \in SliceResults, r \in {"none", "slice"} :
          \/ /\ r = "slice"
             /\ Caught(stage, next)
             /\ l_k' = 0 /\ l_groups' = 0
          \/ /\ r = "none"
             /\ l_groups' = IF wires # <<>> THEN l_groups + 1 ELSE l_groups
             /\ l_k' = l_k + 1
             /\ l_pc' = IF l_k + 1 < Len(planes) THEN here ELSE export
             /\ UNCHANGED <<l_caught, l_result, l_fatal>>

\* Lines 489-496: the gathering loop of the combined body plan.
LBodySlice ==
    /\ l_pc = "body_slice"
    /\ IF l_sections = <<>>
       THEN /\ l_attempted' = l_attempted \cup {<<"bodyplan", 0>>}
            /\ l_pc' = "body_export"
            /\ UNCHANGED <<l_k, l_groups, l_caught, l_result, l_fatal>>
       ELSE GatherStep(<<"bodyplan", 0>>, l_sections, "body_slice",
                       "body_export", "wl_positions")
    /\ UNCHANGED <<l_params, l_shapes, l_sections, l_waterlines, l_exit,
                   fnVars, designVars>>

\* Lines 497-513: the two exports of the combined body plan.
LBodyExport ==
    /\ l_pc = "body_export"
    /\ \E r \in {"none", "full", "clipped"} :
          \/ /\ l_groups = 0
             /\ l_pc' = "wl_positions"
             /\ UNCHANGED <<l_caught, l_result, l_fatal>>
          \/ /\ l_groups > 0 /\ r = "full"
             /\ Caught(<<"bodyplan", 0>>, "wl_positions")
          \/ /\ l_groups > 0 /\ r = "clipped"
             /\ Caught(<<"bodyplan", 0>>, "wl_positions")
          \/ /\ l_groups > 0 /\ r = "none"
             /\ l_pc' = "wl_positions"
             /\ UNCHANGED <<l_caught, l_result, l_fatal>>
    /\ l_k' = 0 /\ l_groups' = 0
    /\ UNCHANGED <<l_params, l_shapes, l_sections, l_waterlines, l_attempted,
                   l_exit, fnVars, designVars>>

\* Lines 518-519: outside every try block.
LWaterlinePositions ==
    /\ l_pc = "wl_positions"
    /\ l_waterlines' = get_waterline_positions(l_params)
    /\ l_pc' = "waterline"
    /\ l_k' = 0
    /\ UNCHANGED <<l_params, l_shapes, l_sections, l_groups, l_attempted,
                   l_caught, l_result, l_exit, l_fatal,
                   fnVars, designVars>>

\* A per-waterline pass whose exception is not caught.
LWaterlineUnprotected ==
    /\ l_pc = "waterline"
    /\ l_k < Len(l_waterlines)
    /\ l_attempted' = l_attempted \cup {<<"waterline", l_k>>}
    /\ \E wires \in SliceResults, r \in {"none", "slice", "export"} :
          \/ /\ r = "slice" \/ (r = "export" /\ wires # <<>>)
             /\ Uncaught(<<"waterline", l_k>>, "returned")
          \/ /\ r # "slice" /\ wires = <<>>
             /\ l_pc' = IF l_k + 1 < Len(l_waterlines)
                        THEN "waterline" ELSE "full_slice"
             /\ UNCHANGED <<l_caught, l_result, l_fatal>>
          \/ /\ r = "none" /\ wires # <<>>
             /\ l_pc' = IF l_k + 1 < Len(l_waterlines)
                        THEN "waterline" ELSE "full_slice"
             /\ UNCHANGED <<l_caught, l_result, l_fatal>>
    /\ l_k' = IF l_k + 1 < Len(l_waterlines) THEN l_k + 1 ELSE 0
    /\ l_groups' = 0
    /\ UNCHANGED <<l_params, l_shapes, l_sections, l_waterlines, l_exit,
                   fnVars, designVars>>

\* Lines 522-536: the waterline at position l_k of waterline_positions.
LWaterline ==
    /\ l_pc = "waterline"
    /\ l_k < Len(l_waterlines)
    /\ SingleStage(<<"waterline", l_k>>,
                   IF l_k + 1 < Len(l_waterlines) THEN "waterline" ELSE "full_slice")
    /\ l_k' = IF l_k + 1 < Len(l_waterlines) THEN l_k + 1 ELSE 0
    /\ l_groups' = 0
    /\ UNCHANGED <<l_params, l_shapes, l_sections, l_waterlines, l_exit,
                   fnVars, designVars>>

\* Lines 540-546: the gathering loop of the combined full-breadth plan.
LFullSlice ==
    /\ l_pc = "full_slice"
    /\ GatherStep(<<"fullbreadth", 0>>, l_waterlines, "full_slice",
                  "full_export", "save")
    /\ UNCHANGED <<l_params, l_shapes, l_sections, l_waterlines, l_exit,
                   fnVars, designVars>>

\* Lines 548-556: the export of the combined full-breadth plan.
LFullExport ==
    /\ l_pc = "full_export"
    /\ \E r \in {"none", "export"} :
          \/ /\ l_groups = 0
             /\ l_pc' = "save"
             /\ UNCHANGED <<l_caught, l_result, l_fatal>>
          \/ /\ l_groups > 0 /\ r = "export"
             /\ Caught(<<"fullbreadth", 0>>, "save")
          \/ /\ l_groups > 0 /\ r = "none"
             /\ l_pc' = "save"
             /\ UNCHANGED <<l_caught, l_result, l_fatal>>
    /\ l_k' = 0 /\ l_groups' = 0
    /\ UNCHANGED <<l_params, l_shapes, l_sections, l_waterlines, l_attempted,
                   l_exit, fnVars, designVars>>

\* Lines 561-588: save the document, write the LaTeX file (neither is in a
\* try block), close the documents, return True.
LSave ==
    /\ l_pc = "save"
    /\ \/ l_result' = "True" /\ UNCHANGED l_fatal
       \/ l_result' = "raised" /\ l_fatal' = "save"
    /\ l_pc' = "returned"
    /\ UNCHANGED <<l_params, l_shapes, l_sections, l_waterlines, l_k, l_groups,
                   l_attempted, l_caught, l_exit, fnVars, designVars>>

\* Lines 834-841: _os._exit(0 if success else 1); an exception that left
\* create_lines_plan ends the interpreter with status 1.
LExit ==
    /\ l_pc = "returned"
    /\ l_exit' = IF l_result = "True" THEN 0 ELSE 1
    /\ l_pc' = "exited"
    /\ UNCHANGED <<l_params, l_shapes, l_sections, l_waterlines, l_k, l_groups,
                   l_attempted, l_caught, l_result, l_fatal,
                   fnVars, designVars>>

\* ---- the parameter files and designs the lines run is checked on
LevelChoices == {<<900, 300, 600>>, <<900, 300, 1500>>, <<100, 300, 600>>}

LinesParamsOf(n, levels) ==
    [k \in {"hull_length", "hull_sections", "deck_level", "hull_draft",
            "freeboard"} |->
        CASE k = "hull_length"   -> 6000
          [] k = "hull_sections" -> n
          [] k = "deck_level"    -> levels[1]
          [] k = "hull_draft"    -> levels[2]
          [] k = "freeboard"     -> levels[3]]

InitLines ==
    /\ FnIdle /\ DesignIdle
    /\ \E n \in 0..MaxStations, levels \in LevelChoices :
          l_params = LinesParamsOf(n, levels)
    /\ l_shapes \in 0..MaxCollected
    /\ l_pc = "start"
    /\ l_sections = <<>> /\ l_waterlines = <<>> /\ l_k = 0 /\ l_groups = 0
    /\ l_attempted = {} /\ l_caught = {}
    /\ l_result = "none" /\ l_exit = -1 /\ l_fatal = "none"

NextLines ==
    \/ LStart
    \/ LProfile
    \/ LSectionPositions
    \/ LSection
    \/ LBodySlice
    \/ LBodyExport
    \/ LWaterlinePositions
    \/ LWaterline
    \/ LFullSlice
    \/ LFullExport
    \/ LSave
    \/ LExit

SpecLines == InitLines /\ [][NextLines]_vars

---------------------------------------------------------------------------
(* Claims about the pure functions.                                        *)

RBetween(x, a, b) == RLe(RMin(a, b), x) /\ RLe(x, RMax(a, b))

FirstEntry == <<hull_shape_table[1][2], hull_shape_table[1][3]>>
LastEntry  == <<hull_shape_table[TableLen][2], hull_shape_table[TableLen][3]>>

Brackets(frac) ==
    {j \in 1..(TableLen - 1) :
        RLe(hull_shape_table[j][1], frac) /\ RLe(frac, hull_shape_table[j + 1][1])}

KeelPoint(hd) == <<RInt(0), RNeg(hd)>>

\* C10: for half-width > 0 and half-depth > 0 hull_section_points returns
\* 2*n+1 = 25 points running from the port sheer (-hw, 0) through the keel
\* (0, -hd) to the starboard sheer (hw, 0); the keel point appears exactly
\* once, the first and last points differ, and point k and point 2n-k have
\* opposite x and equal z.
C10_SectionPointsShape ==
    (sp_pts # NotCalled /\ RLt(RInt(0), sp_hw) /\ RLt(RInt(0), sp_hd)) =>
        /\ Len(sp_pts) = 2 * n_pts + 1
        /\ Len(sp_pts) = 25
        /\ sp_pts[1] = <<RNeg(sp_hw), RInt(0)>>
        /\ sp_pts[n_pts + 1] = KeelPoint(sp_hd)
        /\ sp_pts[2 * n_pts + 1] = <<sp_hw, RInt(0)>>
        /\ \A k \in 1..(Len(sp_pts) - 1) : RLt(sp_pts[k][1], sp_pts[k + 1][1])
        /\ Cardinality({k \in 1..Len(sp_pts) : sp_pts[k] = KeelPoint(sp_hd)}) = 1
        /\ sp_pts[1] # sp_pts[Len(sp_pts)]
        /\ \A k \in 0..(2 * n_pts) :
              /\ sp_pts[k + 1][1] = RNeg(sp_pts[2 * n_pts - k + 1][1])
              /\ sp_pts[k + 1][2] = sp_pts[2 * n_pts - k + 1][2]

\* The profile of a section 5 wide (half-width 5/2) and 3 deep.
C10_Witness ==
    /\ sp_pts # NotCalled
    /\ sp_hw = Rat(5, 2) /\ sp_hd = RInt(3)
    /\ sp_pts[n_pts + 1] = <<RInt(0), RInt(-3)>>
    /\ sp_pts[1][1] = Rat(-5, 2)

\* The wires of the shapes whose slice succeeded, in shape order.
RECURSIVE SuccessfulWires(_)
SuccessfulWires(answers) ==
    IF answers = <<>> THEN <<>>
    ELSE (IF Head(answers).ok THEN Head(answers).wires ELSE <<>>)
            \o SuccessfulWires(Tail(answers))

\* The 0-based positions of the shapes whose slice failed, in shape order.
RECURSIVE FailedPositions(_, _)
FailedPositions(answers, k) ==
    IF k > Len(answers) THEN <<>>
    ELSE (IF answers[k].ok THEN <<>> ELSE <<k - 1>>)
            \o FailedPositions(answers, k + 1)

\* C2: slice_shapes_safely never raises, whichever per-shape slice calls
\* fail; it returns the concatenation, in shape order, of the wires of the
\* shapes whose slice succeeded, logging one warning per failed shape; an
\* empty result is returned as a normal value.
C2_SliceSkipsFailures ==
    sl_out # NotCalled =>
        /\ ~sl_out.raised
        /\ sl_out.wires = SuccessfulWires(sl_in)
        /\ sl_out.warnings = FailedPositions(sl_in, 1)

\* Three shapes, the middle one failing, the outer two contributing wires.
C2_Witness ==
    /\ sl_out # NotCalled
    /\ Len(sl_in) = 3
    /\ sl_in[1].ok /\ ~sl_in[2].ok /\ sl_in[3].ok
    /\ sl_out.wires = <<"a", "b", "a">>
    /\ sl_out.warnings = <<1>>

---------------------------------------------------------------------------
(* Claims about the design run.                                            *)

Range(f) == {f[k] : k \in DOMAIN f}

HullLoftOps == {<<"hull", "outer_loft">>, <<"hull", "inner_loft">>,
                <<"hull", "cut">>}

HullLoftFailed == kernel_failed \cap HullLoftOps # {}

LaterParts == {"Deck__fiberglass", "Keel__lead", "Rudder_Blade__wood",
               "Rudder_Stock__stainless_steel", "Mast__aluminum",
               "Boom__aluminum", "Air_Inside__air"}

PartNames == {vessel[k].name : k \in DOMAIN vessel}

\* C1: when the outer loft, the inner loft or the subtraction of the hull
\* fails, the hull part is a box hull_beam x hull_length x hull_depth, a
\* warning is logged, and the run goes on: no abort is due to the hull
\* failure (only a missing key or a failing mast/boom subtraction ends the
\* run), the run is never stuck before its end, and at its end every later
\* part has been added and the document saved.
C1_HullFallbackContinues ==
    HullLoftFailed =>
        /\ "Warning: Hull loft failed" \in Range(log)
        /\ \E k \in DOMAIN vessel :
              /\ vessel[k].name = "Hull_Shell__fiberglass"
              /\ vessel[k].shape.kind = "box"
              /\ vessel[k].shape.size = <<RInt(params["hull_beam"]),
                                          RInt(params["hull_length"]),
                                          RInt(params["hull_depth"])>>
        /\ fatal.kind # "none" =>
              \/ fatal.kind = "KeyError"
              \/ fatal.kind = "KernelError" /\ fatal.at \in {"mast", "boom"}
        /\ (HasKeys(RequiredKeys)
              /\ kernel_failed \subseteq HullLoftOps \cup {<<"keel", "loft">>})
              => pc # "aborted"
        /\ pc \notin {"done", "aborted"} => ENABLED Next
        /\ pc = "done" => saved /\ LaterParts \subseteq PartNames

\* The run is complete and saved although the outer hull loft failed.
C1_Witness ==
    /\ <<"hull", "outer_loft">> \in kernel_failed
    /\ pc = "done" /\ saved
    /\ vessel[1].name = "Hull_Shell__fiberglass"
    /\ vessel[1].shape.kind = "box"
    /\ Len(vessel) = 8

\* C4: no failure of a kernel loft, subtraction or slice call is fatal.
C4_NoKernelFailureIsFatal == fatal.kind # "KernelError"

\* C5: when a required key is missing, the run fails before any geometry
\* work: at the KeyError no kernel operation has been called and no part
\* has been added.
C5_MissingKeyAbortsBeforeGeometry ==
    fatal.kind = "KeyError" => kernel_calls = 0 /\ vessel = <<>>

StationsDone ==
    \/ pc \in {"hull", "deck", "keel", "rudder", "stock", "mast", "boom",
               "air", "finalize", "done"}
    \/ pc = "aborted" /\ fatal.at # "hull_params"

RequestedCount ==
    IF "hull_sections" \in DOMAIN params THEN params["hull_sections"] ELSE 7

ExpectedCount == IF RequestedCount > 11 THEN RequestedCount ELSE 11

\* -hull_length/2 + (k/(N-1)) * hull_length, for k = 0..N-1.
ExpectedY(k) ==
    RAdd(Rat(-params["hull_length"], 2),
         RMul(Rat(k, ExpectedCount - 1), RInt(params["hull_length"])))

SternToBow(wires) ==
    /\ Len(wires) = ExpectedCount
    /\ wires[1].y = Rat(-params["hull_length"], 2)
    /\ wires[Len(wires)].y = Rat(params["hull_length"], 2)
    /\ \A k \in 1..Len(wires) : wires[k].y = ExpectedY(k - 1)
    /\ \A k \in 1..(Len(wires) - 1) : RLt(wires[k].y, wires[k + 1].y)

\* C6: for every requested station count the builder uses
\* N = max(requested, 11) stations, station k lies at
\* -hull_length/2 + (k/(N-1))*hull_length, and the outer and the inner wire
\* list passed to the loft are in strictly increasing position from the
\* stern (-hull_length/2) to the bow (+hull_length/2), for hull_length > 0.
C6_StationsOrdered ==
    (HasKeys(HullKeys) /\ params["hull_length"] > 0) =>
        /\ Len(outer_wires) = Len(inner_wires)
        /\ Len(outer_wires) <= ExpectedCount
        /\ \A k \in 1..Len(outer_wires) :
              /\ outer_wires[k].y = ExpectedY(k - 1)
              /\ inner_wires[k].y = ExpectedY(k - 1)
        /\ StationsDone => SternToBow(outer_wires) /\ SternToBow(inner_wires)
        /\ \A c \in DOMAIN loft_calls : SternToBow(loft_calls[c])
        /\ Len(loft_calls) >= 1 => loft_calls[1] = outer_wires
        /\ Len(loft_calls) >= 2 => loft_calls[2] = inner_wires

\* Three stations requested: both lofts were called with eleven wires.
C6_Witness ==
    /\ "hull_sections" \in DOMAIN params /\ params["hull_sections"] = 3
    /\ Len(loft_calls) = 2
    /\ Len(loft_calls[1]) = 11 /\ Len(loft_calls[2]) = 11
    /\ pc = "deck"

IsScenario ==
    /\ HasKeys(HullKeys \cup {"hull_sections"})
    /\ params["hull_length"] = 6000 /\ params["hull_beam"] = 2200
    /\ params["hull_depth"] = 900 /\ params["hull_thickness"] = 8
    /\ params["hull_sections"] = 7

\* C8: hull 6000 x 2200 x 900, thickness 8, 7 stations requested: the
\* builder uses 11 stations, station 0 at y = -3000, station 10 at
\* y = +3000, station 5 (fraction 0.5) with half-width 1100 and
\* half-depth 900.
C8_ScenarioStations ==
    (IsScenario /\ StationsDone) =>
        /\ Len(outer_wires) = 11
        /\ outer_wires[1].y = RInt(-3000)
        /\ outer_wires[11].y = RInt(3000)
        /\ station_frac(5) = Rat(1, 2)
        /\ outer_wires[6].hw = RInt(1100)
        /\ outer_wires[6].hd = RInt(900)

C8_Witness ==
    /\ IsScenario /\ pc = "done"
    /\ Len(outer_wires) = 11
    /\ outer_wires[6] = [y |-> RInt(0), hw |-> RInt(1100), hd |-> RInt(900)]

C9_Floors ==
    HasKeys(HullKeys) =>
        \A k \in 1..Len(outer_wires) :
            LET t == RInt(params["hull_thickness"])
            IN  /\ RLe(RMul(RInt(2), t), outer_wires[k].hw)
                /\ RLe(RMul(RInt(2), t), outer_wires[k].hd)
                /\ RLe(t, inner_wires[k].hw)
                /\ RLe(t, inner_wires[k].hd)

InnerPositive ==
    \A k \in 1..Len(inner_wires) :
        RLt(RInt(0), inner_wires[k].hw) /\ RLt(RInt(0), inner_wires[k].hd)

\* C9 as stated: at every station, for every beam, depth and thickness
\* >= 0, the outer half-width and half-depth are >= 2*thickness, the inner
\* ones >= thickness, and the inner cavity is strictly positive.
C9_AsStated == C9_Floors /\ InnerPositive

\* C9 as amended: the same floors for every beam, depth and thickness >= 0;
\* the inner half-width and half-depth are strictly positive whenever the
\* thickness is > 0.
C9_Amended ==
    /\ C9_Floors
    /\ (HasKeys(HullKeys) /\ params["hull_thickness"] > 0) => InnerPositive

\* A bow station of a 100 mm beam with thickness 8: 50 * 0.02 = 1 is
\* floored to 16 outside and the inner half-width is 8.
C9_Witness ==
    /\ HasKeys(HullKeys)
    /\ params["hull_beam"] = 100 /\ params["hull_thickness"] = 8
    /\ Len(outer_wires) = num_sections
    /\ outer_wires[num_sections].hw = RInt(16)
    /\ inner_wires[num_sections].hw = RInt(8)

---------------------------------------------------------------------------
(* Claims about the lines-plan run.                                        *)

\* The stages of a run: profile, one per requested station, the combined
\* body plan, one per waterline level, the combined full-breadth plan.
AllStages ==
    {<<"profile", 0>>, <<"bodyplan", 0>>, <<"fullbreadth", 0>>}
        \cup {<<"section", k>> : k \in 0..(l_params["hull_sections"] - 1)}
        \cup {<<"waterline", k>> :
                k \in 0..(Len(get_waterline_positions(l_params)) - 1)}

\* C3: with at least one collected shape the stages are failure-isolated:
\* an exception raised while slicing, rendering or writing in a stage is
\* caught, so no exception leaves create_lines_plan from a stage; every
\* stage has been attempted when the stages are over, whatever was caught,
\* and the run then returns True and exits with status 0.  The only
\* exceptions that leave create_lines_plan come from the code between and
\* after the stages: get_section_positions for a station count of 1, and
\* the saving of the document and the LaTeX file.
C3_StagesIsolated ==
    l_pc # "idle" =>
        /\ l_fatal \in {"none", "positions", "save"}
        /\ l_fatal = "positions" => l_params["hull_sections"] = 1
        /\ l_caught \subseteq l_attempted
        /\ l_pc = "save" => l_attempted = AllStages
        /\ (l_pc = "exited" /\ l_shapes > 0 /\ l_fatal = "none") =>
              /\ l_attempted = AllStages
              /\ l_result = "True"
              /\ l_exit = 0

\* Every stage of a two-station run raised and the run still exits 0.
C3_Witness ==
    /\ l_pc = "exited" /\ l_exit = 0 /\ l_result = "True"
    /\ l_params["hull_sections"] = 2
    /\ l_caught = AllStages
    /\ Cardinality(l_caught) >= 9

---------------------------------------------------------------------------
(* Claims about the section profile, continued.                           *)

RAbs(a) == <<Abs(a[1]), a[2]>>

\* Positions in the returned sequence: port sheer, keel, starboard sheer.
PortSheer == 1
KeelAt    == n_pts + 1
StbdSheer == 2 * n_pts + 1

SectionValid == sp_pts # NotCalled /\ RLt(RInt(0), sp_hw) /\ RLt(RInt(0), sp_hd)

\* C11 as stated: for valid (halfWidth, halfDepth), |z| is monotonically
\* non-increasing from sheer to keel on each side.
C11_AsStated ==
    SectionValid =>
        /\ \A k \in PortSheer..(KeelAt - 1) :
              RLe(RAbs(sp_pts[k + 1][2]), RAbs(sp_pts[k][2]))
        /\ \A k \in KeelAt..(StbdSheer - 1) :
              RLe(RAbs(sp_pts[k][2]), RAbs(sp_pts[k + 1][2]))

\* C11 as amended: for valid (halfWidth, halfDepth), |z| is strictly
\* increasing from sheer (|z| = 0) to keel (|z| = halfDepth) on each side,
\* that is, non-increasing from keel to sheer.
C11_Amended ==
    SectionValid =>
        /\ sp_pts[PortSheer][2] = RInt(0) /\ sp_pts[StbdSheer][2] = RInt(0)
        /\ RAbs(sp_pts[KeelAt][2]) = sp_hd
        /\ \A k \in PortSheer..(KeelAt - 1) :
              RLt(RAbs(sp_pts[k][2]), RAbs(sp_pts[k + 1][2]))
        /\ \A k \in KeelAt..(StbdSheer - 1) :
              RLt(RAbs(sp_pts[k + 1][2]), RAbs(sp_pts[k][2]))

\* Half-width 5, half-depth 6: |z| is 0 at both sheers, 1/2 one sample
\* below the port sheer, and 6 at the keel.
C11_Witness ==
    /\ sp_pts # NotCalled /\ sp_hw = RInt(5) /\ sp_hd = RInt(6)
    /\ sp_pts[PortSheer][2] = RInt(0)
    /\ sp_pts[PortSheer + 1][2] = Rat(-1, 2)
    /\ sp_pts[KeelAt][2] = RInt(-6)

---------------------------------------------------------------------------
(* lines/__main__.py: the two position functions applied to one parameter  *)
(* set each.                                                               *)

MaxCount == 8    \* position functions: 'hull_sections' in 0..MaxCount

\* -1: the key is absent from the parameter file.
Absent == -1

LengthChoices    == {Absent, 1, 2, 3, 4, 5, 8, 6000}
CountChoices     == {Absent} \cup 0..MaxCount
DeckChoices      == {Absent, 100, 400, 900}
DraftChoices     == {Absent, 0, 3}
FreeboardChoices == {Absent, 300, 1500}

PositionParamsOf(len, n, deck, draft, fb) ==
    LET given == [hull_length |-> len, hull_sections |-> n, deck_level |-> deck,
                  hull_draft |-> draft, freeboard |-> fb]
        keys  == {k \in DOMAIN given : given[k] # Absent}
    IN  [k \in keys |-> given[k]]

InitPositions ==
    /\ \E len \in LengthChoices, n \in CountChoices, deck \in DeckChoices,
          draft \in DraftChoices, fb \in FreeboardChoices :
          ps_params = PositionParamsOf(len, n, deck, draft, fb)
    /\ ps_sections = NotCalled /\ ps_waterlines = NotCalled
    /\ it_frac = RInt(0) /\ it_out = NotCalled
    /\ sp_hw = RInt(0) /\ sp_hd = RInt(0) /\ sp_pts = NotCalled
    /\ sl_in = <<>> /\ sl_out = NotCalled
    /\ MapPointIdle /\ ScaleBarIdle /\ RenderIdle
    /\ DesignIdle /\ LinesIdle

otherDrawVars == <<mp_point, mp_view, mp_out, sb_extents, sb_out, renderVars>>
pureVars == <<it_frac, it_out, sp_hw, sp_hd, sp_pts, sl_in, sl_out>>

SectionPositionsCall ==
    /\ ps_sections = NotCalled
    /\ ps_sections' = get_section_positions(ps_params)
    /\ UNCHANGED <<ps_params, ps_waterlines, otherDrawVars, pureVars,
                   designVars, linesVars>>

WaterlinePositionsCall ==
    /\ ps_waterlines = NotCalled
    /\ ps_waterlines' = get_waterline_positions(ps_params)
    /\ UNCHANGED <<ps_params, ps_sections, otherDrawVars, pureVars,
                   designVars, linesVars>>

NextPositions == SectionPositionsCall \/ WaterlinePositionsCall

SpecPositions == InitPositions /\ [][NextPositions]_vars

---------------------------------------------------------------------------
(* Claims about the position functions.                                    *)

PsLength    == RInt(Get(ps_params, "hull_length", DefaultLoa))
PsCount     == Get(ps_params, "hull_sections", DefaultSections)
PsDeck      == RInt(Get(ps_params, "deck_level", DefaultDeckLevel))
PsDraft     == RInt(Get(ps_params, "hull_draft", DefaultDraft))
PsFreeboard == RInt(Get(ps_params, "freeboard", DefaultFreeboard))

\* y_k = -hull_length/2 + k*hull_length/(n-1).
EvenlySpaced(k) ==
    RAdd(RNeg(RDiv(PsLength, RInt(2))),
         RDiv(RMul(RInt(k), PsLength), RInt(PsCount - 1)))

\* y + 1 exactly when |y| < 1.
Nudged(y) == IF RLt(RAbs(y), RInt(1)) THEN RAdd(y, RInt(1)) ELSE y

SectionsCalled == ps_sections # NotCalled /\ PsCount >= 2

SectionEntries ==
    /\ ~ps_sections.raised
    /\ Len(ps_sections.positions) = PsCount
    /\ \A k \in 1..PsCount :
          /\ ps_sections.positions[k][1] = k - 1
          /\ ps_sections.positions[k][2] = Nudged(EvenlySpaced(k - 1))
          /\ ps_sections.positions[k][2] # RInt(0)

SectionsIncreasing ==
    \A k \in 1..(Len(ps_sections.positions) - 1) :
        RLt(ps_sections.positions[k][2], ps_sections.positions[k + 1][2])

\* C18 as stated: for every hull_length > 0 and station count n >= 2
\* (default 7) get_section_positions returns n entries stn_0..stn_(n-1),
\* strictly increasing from stern to bow, entry k being y_k, or y_k + 1
\* exactly when |y_k| < 1, and no offset is 0.
C18_AsStated == SectionsCalled => SectionEntries /\ SectionsIncreasing

\* C18 as amended: the same entries for every hull_length > 0 and n >= 2;
\* they are strictly increasing exactly when the station spacing
\* hull_length/(n-1) is greater than 1 or hull_length < 2.
C18_Amended ==
    SectionsCalled =>
        /\ SectionEntries
        /\ SectionsIncreasing <=>
              \/ RLt(RInt(1), RDiv(PsLength, RInt(PsCount - 1)))
              \/ RLt(PsLength, RInt(2))

\* Hull 6000 with the default 7 stations: the mid station y = 0 is moved to 1.
C18_Witness ==
    /\ ps_sections # NotCalled
    /\ "hull_sections" \notin DOMAIN ps_params
    /\ PsLength = RInt(6000)
    /\ Len(ps_sections.positions) = 7
    /\ ps_sections.positions[1] = <<0, RInt(-3000)>>
    /\ ps_sections.positions[4] = <<3, RInt(1)>>
    /\ ps_sections.positions[7] = <<6, RInt(3000)>>

WaterlineHas(name, z) ==
    \E k \in DOMAIN ps_waterlines : ps_waterlines[k] = <<name, z>>

WaterlineNamed(name) ==
    \E k \in DOMAIN ps_waterlines : ps_waterlines[k][1] = name

AboveLevel(k) == RMul(RInt(k), RDiv(PsFreeboard, RInt(3)))

\* Everything C19 says except the height of the waterline entry.
WaterlineLevels ==
    /\ \A k \in 1..(Len(ps_waterlines) - 1) :
          RLe(ps_waterlines[k][2], ps_waterlines[k + 1][2])
    /\ WaterlineHas("wl_below_1", RNeg(RDiv(PsDraft, RInt(3))))
    /\ WaterlineHas("wl_below_2", RMul(RInt(-2), RDiv(PsDraft, RInt(3))))
    /\ WaterlineHas("deck", RSub(PsDeck, RInt(2)))
    /\ WaterlineNamed("wl_above_1") <=> RLt(AboveLevel(1), PsDeck)
    /\ WaterlineNamed("wl_above_2") <=> RLt(AboveLevel(2), PsDeck)
    /\ WaterlineNamed("wl_above_1") => WaterlineHas("wl_above_1", AboveLevel(1))
    /\ WaterlineNamed("wl_above_2") => WaterlineHas("wl_above_2", AboveLevel(2))
    /\ Len(ps_waterlines) \in 4..6
    /\ \A j, k \in DOMAIN ps_waterlines :
          ps_waterlines[j][1] = ps_waterlines[k][1] => j = k

---------------------------------------------------------------------------
(* lines/__main__.py: the view projection and the scale-bar selection of   *)
(* the two renderers.  A model point is a triple <<x, y, z>>.              *)

\* A projection that ignores the view name.
map_point_defaulted(p, view) == <<p[1], -p[2]>>

\* Lines 144-153, in export_wires_to_svg.
map_point(p, view) ==
    IF view = "XZ" THEN <<p[1], -p[3]>>
    ELSE IF view = "XY" THEN <<p[1], -p[2]>>
    ELSE IF view = "YX" THEN <<p[2], -p[1]>>
    ELSE IF view = "YZ" THEN <<p[2], -p[3]>>
    ELSE <<p[1], -p[2]>>

\* Lines 261-270, in export_wire_groups_to_svg.
map_point_groups(p, view) ==
    IF view = "XZ" THEN <<p[1], -p[3]>>
    ELSE IF view = "XY" THEN <<p[1], -p[2]>>
    ELSE IF view = "YX" THEN <<p[2], -p[1]>>
    ELSE IF view = "YZ" THEN <<p[2], -p[3]>>
    ELSE <<p[1], -p[2]>>

\* The view names create_lines_plan passes: lines 450 and 455 (profile),
\* 478, 501 and 507 (body plan), 529 and 550 (waterlines, full breadth).
ProfileView   == "YZ"
BodyView      == "XZ"
WaterlineView == "YX"

\* A selection with inclusive thresholds (>= instead of >).
scale_bar_inclusive(extent_x, extent_y) ==
    LET max_extent_mm == RMax(extent_x, extent_y)
    IN  IF RLe(RInt(5000), max_extent_mm) THEN <<1000, "1 m">>
        ELSE IF RLe(RInt(2000), max_extent_mm) THEN <<500, "0.5 m">>
        ELSE IF RLe(RInt(500), max_extent_mm) THEN <<200, "200 mm">>
        ELSE <<100, "100 mm">>

\* Lines 201-209, in export_wires_to_svg.
scale_bar(extent_x, extent_y) ==
    LET max_extent_mm == RMax(extent_x, extent_y)
    IN  IF RLt(RInt(5000), max_extent_mm) THEN <<1000, "1 m">>
        ELSE IF RLt(RInt(2000), max_extent_mm) THEN <<500, "0.5 m">>
        ELSE IF RLt(RInt(500), max_extent_mm) THEN <<200, "200 mm">>
        ELSE <<100, "100 mm">>

\* Lines 319-327, in export_wire_groups_to_svg.
scale_bar_groups(extent_x, extent_y) ==
    LET max_extent_mm == RMax(extent_x, extent_y)
    IN  IF RLt(RInt(5000), max_extent_mm) THEN <<1000, "1 m">>
        ELSE IF RLt(RInt(2000), max_extent_mm) THEN <<500, "0.5 m">>
        ELSE IF RLt(RInt(500), max_extent_mm) THEN <<200, "200 mm">>
        ELSE <<100, "100 mm">>

MaxCoord == 2    \* map_point: coordinates in -MaxCoord..MaxCoord

\* The four view names and one that is none of them.
Views == {"XZ", "XY", "YX", "YZ", "ZX"}

InitMapPoint ==
    /\ mp_point \in {<<x, y, z>> : x \in (-MaxCoord)..MaxCoord,
                                   y \in (-MaxCoord)..MaxCoord,
                                   z \in (-MaxCoord)..MaxCoord}
    /\ mp_view \in Views
    /\ mp_out = NotCalled
    /\ PositionsIdle /\ ScaleBarIdle /\ RenderIdle
    /\ it_frac = RInt(0) /\ it_out = NotCalled
    /\ sp_hw = RInt(0) /\ sp_hd = RInt(0) /\ sp_pts = NotCalled
    /\ sl_in = <<>> /\ sl_out = NotCalled
    /\ DesignIdle /\ LinesIdle

MapPointCall ==
    /\ mp_out = NotCalled
    /\ mp_out' = [single |-> map_point(mp_point, mp_view),
                  groups |-> map_point_groups(mp_point, mp_view)]
    /\ UNCHANGED <<mp_point, mp_view, ps_params, ps_sections, ps_waterlines,
                   sb_extents, sb_out, renderVars, pureVars, designVars,
                   linesVars>>

SpecMapPoint == InitMapPoint /\ [][MapPointCall]_vars

\* Guarded extents around every threshold of the selection.
ExtentChoices ==
    {Rat(1, 10), RInt(300), RInt(499), RInt(500), Rat(5001, 10), RInt(1000),
     RInt(2000), Rat(20001, 10), RInt(3000), RInt(5000), Rat(50001, 10),
     RInt(6000)}

InitScaleBar ==
    /\ sb_extents \in ExtentChoices \X ExtentChoices
    /\ sb_out = NotCalled
    /\ PositionsIdle /\ MapPointIdle /\ RenderIdle
    /\ it_frac = RInt(0) /\ it_out = NotCalled
    /\ sp_hw = RInt(0) /\ sp_hd = RInt(0) /\ sp_pts = NotCalled
    /\ sl_in = <<>> /\ sl_out = NotCalled
    /\ DesignIdle /\ LinesIdle

ScaleBarCall ==
    /\ sb_out = NotCalled
    /\ sb_out' = [single |-> scale_bar(sb_extents[1], sb_extents[2]),
                  groups |-> scale_bar_groups(sb_extents[1], sb_extents[2])]
    /\ UNCHANGED <<sb_extents, ps_params, ps_sections, ps_waterlines,
                   mp_point, mp_view, mp_out, renderVars, pureVars, designVars,
                   linesVars>>

SpecScaleBar == InitScaleBar /\ [][ScaleBarCall]_vars

---------------------------------------------------------------------------
(* Claims about the view projection and the scale bar.                     *)

\* C17: the projection is a function of (point, view name) alone:
\* XZ -> (x, -z), XY -> (x, -y), YX -> (y, -x), YZ -> (y, -z), any other
\* name -> (x, -y); the second coordinate is the negation of a model axis;
\* both renderers use the same mapping; the profile is drawn with (y, -z)
\* and the top view with (y, -x).
C17_ViewProjection ==
    mp_out # NotCalled =>
        LET x == mp_point[1]
            y == mp_point[2]
            z == mp_point[3]
        IN  /\ mp_out.single =
                  CASE mp_view = "XZ" -> <<x, -z>>
                    [] mp_view = "XY" -> <<x, -y>>
                    [] mp_view = "YX" -> <<y, -x>>
                    [] mp_view = "YZ" -> <<y, -z>>
                    [] OTHER          -> <<x, -y>>
            /\ mp_out.groups = mp_out.single
            /\ mp_out.single[2] \in {-x, -y, -z}
            /\ mp_view = ProfileView => mp_out.single = <<y, -z>>
            /\ mp_view = WaterlineView => mp_out.single = <<y, -x>>

\* The point (1, 2, -1) in the profile view is (2, 1) in both renderers.
C17_Witness ==
    /\ mp_point = <<1, 2, -1>> /\ mp_view = ProfileView
    /\ mp_out # NotCalled
    /\ mp_out.single = <<2, 1>> /\ mp_out.groups = <<2, 1>>

SbLarger == RMax(sb_extents[1], sb_extents[2])

\* C13: the bar length and label are a step function of the larger extent
\* E, the same in both renderers: E > 5000 -> 1000 / "1 m";
\* 2000 < E <= 5000 -> 500 / "0.5 m"; 500 < E <= 2000 -> 200 / "200 mm";
\* E <= 500 -> 100 / "100 mm"; extents 6000, 3000, 1000, 300 select
\* 1 m, 0.5 m, 200 mm, 100 mm.
C13_ScaleBarSteps ==
    sb_out # NotCalled =>
        /\ sb_out.single = sb_out.groups
        /\ RLt(RInt(5000), SbLarger) => sb_out.single = <<1000, "1 m">>
        /\ (RLt(RInt(2000), SbLarger) /\ RLe(SbLarger, RInt(5000)))
              => sb_out.single = <<500, "0.5 m">>
        /\ (RLt(RInt(500), SbLarger) /\ RLe(SbLarger, RInt(2000)))
              => sb_out.single = <<200, "200 mm">>
        /\ RLe(SbLarger, RInt(500)) => sb_out.single = <<100, "100 mm">>
        /\ SbLarger = RInt(6000) => sb_out.single[2] = "1 m"
        /\ SbLarger = RInt(3000) => sb_out.single[2] = "0.5 m"
        /\ SbLarger = RInt(1000) => sb_out.single[2] = "200 mm"
        /\ SbLarger = RInt(300) => sb_out.single[2] = "100 mm"

\* Extents 300 and 5000: the larger one, exactly at a threshold, selects
\* the 0.5 m bar.
C13_Witness ==
    /\ sb_extents = <<RInt(300), RInt(5000)>>
    /\ sb_out # NotCalled
    /\ sb_out.single = <<500, "0.5 m">> /\ sb_out.groups = <<500, "0.5 m">>

---------------------------------------------------------------------------
(* lines/__main__.py: export_wires_to_svg.  A wire is the sequence of its  *)
(* edges and an edge is the sequence of model points edge.discretize(50)   *)
(* returns for it.  The SVG text is modelled by the values written into    *)
(* it, each number as formatted: f"{v:.1f}" is a count of tenths and       *)
(* f"{v:.2f}" a count of hundredths.                                       *)

\* The nearest multiple of 1/unit to v, ties to even, as an integer count.
RoundTo(v, unit) ==
    LET n   == v[1] * unit
        fl  == n \div v[2]
        rem == n - fl * v[2]
    IN  IF 2 * rem > v[2] THEN fl + 1
        ELSE IF 2 * rem < v[2] THEN fl
        ELSE IF fl % 2 = 0 THEN fl ELSE fl + 1

Fmt1(v) == RoundTo(v, 10)
Fmt2(v) == RoundTo(v, 100)

margin           == 40
scale_bar_height == 30
MinExtent        == Rat(1, 10)

RECURSIVE Concat(_)
Concat(ss) == IF ss = <<>> THEN <<>> ELSE Head(ss) \o Concat(Tail(ss))

SeqMin(s) == CHOOSE m \in {s[k] : k \in DOMAIN s} : \A k \in DOMAIN s : m <= s[k]
SeqMax(s) == CHOOSE m \in {s[k] : k \in DOMAIN s} : \A k \in DOMAIN s : m >= s[k]

\* An emission pass that keeps every sample.
retained_emission_unclipped(points, clip_z) == points

\* Lines 136-138: the samples of one edge the extents pass keeps.
retained_extents(points, clip_z) ==
    IF clip_z = NoClip THEN points
    ELSE SelectSeq(points, LAMBDA p : p[3] <= clip_z[1])

\* Lines 183-185: the samples of one edge the emission pass keeps.
retained_emission(points, clip_z) ==
    IF clip_z = NoClip THEN points
    ELSE SelectSeq(points, LAMBDA p : p[3] <= clip_z[1])

\* Lines 133-139.
all_points(wires, clip_z) ==
    LET edges == Concat(wires)
    IN  Concat([k \in 1..Len(edges) |-> retained_extents(edges[k], clip_z)])

\* A layout whose scale is taken from the horizontal extent alone.
layout_by_width(points, view, target_size) ==
    LET mapped   == [k \in DOMAIN points |-> map_point(points[k], view)]
        min_x    == SeqMin([k \in DOMAIN mapped |-> mapped[k][1]])
        max_x    == SeqMax([k \in DOMAIN mapped |-> mapped[k][1]])
        min_y    == SeqMin([k \in DOMAIN mapped |-> mapped[k][2]])
        max_y    == SeqMax([k \in DOMAIN mapped |-> mapped[k][2]])
        extent_x == RMax(RInt(max_x - min_x), MinExtent)
        extent_y == RMax(RInt(max_y - min_y), MinExtent)
        scale    == RDiv(RInt(target_size), extent_x)
    IN  [extent_x |-> extent_x, extent_y |-> extent_y, scale |-> scale,
         width    |-> RAdd(RMul(extent_x, scale), RInt(2 * margin)),
         height   |-> RAdd(RMul(extent_y, scale),
                           RInt(2 * margin + scale_bar_height)),
         offset_x |-> RAdd(RMul(RInt(-min_x), scale), RInt(margin)),
         offset_y |-> RAdd(RMul(RInt(-min_y), scale), RInt(margin))]

\* Lines 155-171: extents, scale, canvas size and offsets.
layout(points, view, target_size) ==
    LET mapped   == [k \in DOMAIN points |-> map_point(points[k], view)]
        min_x    == SeqMin([k \in DOMAIN mapped |-> mapped[k][1]])
        max_x    == SeqMax([k \in DOMAIN mapped |-> mapped[k][1]])
        min_y    == SeqMin([k \in DOMAIN mapped |-> mapped[k][2]])
        max_y    == SeqMax([k \in DOMAIN mapped |-> mapped[k][2]])
        extent_x == RMax(RInt(max_x - min_x), MinExtent)
        extent_y == RMax(RInt(max_y - min_y), MinExtent)
        scale    == RDiv(RInt(target_size), RMax(extent_x, extent_y))
    IN  [extent_x |-> extent_x, extent_y |-> extent_y, scale |-> scale,
         width    |-> RAdd(RMul(extent_x, scale), RInt(2 * margin)),
         height   |-> RAdd(RMul(extent_y, scale),
                           RInt(2 * margin + scale_bar_height)),
         offset_x |-> RAdd(RMul(RInt(-min_x), scale), RInt(margin)),
         offset_y |-> RAdd(RMul(RInt(-min_y), scale), RInt(margin))]

\* Lines 188-196: the path of one edge, "M sx sy" then "L sx sy" ...
edge_path(points, view, lay) ==
    [k \in 1..Len(points) |->
        LET m == map_point(points[k], view)
        IN  <<IF k = 1 THEN "M" ELSE "L",
              Fmt2(RAdd(RMul(RInt(m[1]), lay.scale), lay.offset_x)),
              Fmt2(RAdd(RMul(RInt(m[2]), lay.scale), lay.offset_y))>>]

\* Lines 181-186: the retained samples of every edge, in edge order.
emission_points(wires, clip_z) ==
    LET edges == Concat(wires)
    IN  [k \in 1..Len(edges) |-> retained_emission(edges[k], clip_z)]

\* Lines 181-196: one path per edge with at least two retained samples.
wire_paths(wires, view, clip_z, lay) ==
    LET drawn == SelectSeq(emission_points(wires, clip_z),
                           LAMBDA pts : Len(pts) >= 2)
    IN  [k \in 1..Len(drawn) |-> edge_path(drawn[k], view, lay)]

\* Lines 211-229: the bar, its two ticks and its label.
bar_elements(lay, bar) ==
    LET bar_length_svg == RMul(RInt(bar[1]), lay.scale)
        bar_x          == RInt(margin)
        bar_y          == RSub(lay.height, RInt(15))
        bar_end        == RAdd(bar_x, bar_length_svg)
    IN  [x1 |-> Fmt1(bar_x), x2 |-> Fmt1(bar_end), y |-> Fmt1(bar_y),
         tick_top |-> Fmt1(RSub(bar_y, RInt(5))),
         tick_bottom |-> Fmt1(RAdd(bar_y, RInt(5))),
         text_x |-> Fmt1(RAdd(bar_x, RDiv(bar_length_svg, RInt(2)))),
         text_y |-> Fmt1(RSub(bar_y, RInt(8))),
         label |-> bar[2]]

\* A call that writes a drawing without paths when nothing is retained.
EmptyDrawing(kept) ==
    [written |-> TRUE,
     svg |-> [width |-> 0, height |-> 0, groups |-> <<>>, bar |-> <<>>],
     locals |-> [all_points |-> <<>>, emitted |-> kept, layout |-> <<>>]]

\* The call returned at line 142 (or 259) without opening the file.
NothingDrawn(kept) ==
    [written |-> FALSE, svg |-> <<>>,
     locals |-> [all_points |-> <<>>, emitted |-> kept, layout |-> <<>>]]

\* Lines 121-234.  stroke_width keeps its default "1.0".
export_wires_to_svg(wires, view, target_size, clip_z) ==
    LET pts == all_points(wires, clip_z)
        lay == layout(pts, view, target_size)
    IN  IF pts = <<>> THEN NothingDrawn(<<>>)
        ELSE [written |-> TRUE,
              svg |-> [width  |-> Fmt1(lay.width),
                       height |-> Fmt1(lay.height),
                       groups |-> <<[stroke |-> "black", stroke_width |-> "1.0",
                                     paths |-> wire_paths(wires, view, clip_z, lay)]>>,
                       bar |-> bar_elements(lay, scale_bar(lay.extent_x,
                                                           lay.extent_y))],
              locals |-> [all_points |-> pts,
                          emitted |-> emission_points(wires, clip_z),
                          layout |-> lay]]

---------------------------------------------------------------------------
(* lines/__main__.py: export_wire_groups_to_svg.  A group is a record      *)
(* [wires, color].                                                         *)

\* Lines 253-255: the samples of one edge the extents pass keeps.
retained_extents_groups(points, clip_z) ==
    IF clip_z = NoClip THEN points
    ELSE SelectSeq(points, LAMBDA p : p[3] <= clip_z[1])

\* Lines 302-304: the samples of one edge the emission pass keeps.
retained_emission_groups(points, clip_z) ==
    IF clip_z = NoClip THEN points
    ELSE SelectSeq(points, LAMBDA p : p[3] <= clip_z[1])

\* Lines 249-256: the retained samples of every edge of every group.
all_points_groups(wire_groups, clip_z) ==
    LET edges == Concat([g \in 1..Len(wire_groups) |->
                            Concat(wire_groups[g].wires)])
    IN  Concat([k \in 1..Len(edges) |->
                   retained_extents_groups(edges[k], clip_z)])

\* Lines 272-288: extents, scale, canvas size and offsets.
layout_groups(points, view, target_size) ==
    LET mapped   == [k \in DOMAIN points |-> map_point_groups(points[k], view)]
        min_x    == SeqMin([k \in DOMAIN mapped |-> mapped[k][1]])
        max_x    == SeqMax([k \in DOMAIN mapped |-> mapped[k][1]])
        min_y    == SeqMin([k \in DOMAIN mapped |-> mapped[k][2]])
        max_y    == SeqMax([k \in DOMAIN mapped |-> mapped[k][2]])
        extent_x == RMax(RInt(max_x - min_x), MinExtent)
        extent_y == RMax(RInt(max_y - min_y), MinExtent)
        scale    == RDiv(RInt(target_size), RMax(extent_x, extent_y))
    IN  [extent_x |-> extent_x, extent_y |-> extent_y, scale |-> scale,
         width    |-> RAdd(RMul(extent_x, scale), RInt(2 * margin)),
         height   |-> RAdd(RMul(extent_y, scale),
                           RInt(2 * margin + scale_bar_height)),
         offset_x |-> RAdd(RMul(RInt(-min_x), scale), RInt(margin)),
         offset_y |-> RAdd(RMul(RInt(-min_y), scale), RInt(margin))]

\* Lines 307-315: the path of one edge.
edge_path_groups(points, view, lay) ==
    [k \in 1..Len(points) |->
        LET m == map_point_groups(points[k], view)
        IN  <<IF k = 1 THEN "M" ELSE "L",
              Fmt2(RAdd(RMul(RInt(m[1]), lay.scale), lay.offset_x)),
              Fmt2(RAdd(RMul(RInt(m[2]), lay.scale), lay.offset_y))>>]

\* Lines 300-305: the retained samples of every edge of one group.
emission_points_groups(wires, clip_z) ==
    LET edges == Concat(wires)
    IN  [k \in 1..Len(edges) |-> retained_emission_groups(edges[k], clip_z)]

\* A group drawn with a scale and offsets of its own points.
group_paths_rescaled(wires, view, clip_z, lay) ==
    LET kept   == emission_points_groups(wires, clip_z)
        drawn  == SelectSeq(kept, LAMBDA pts : Len(pts) >= 2)
        target == RMul(lay.scale, RMax(lay.extent_x, lay.extent_y))
        unit   == layout_groups(Concat(kept), view, 1)
        own    == [scale    |-> RMul(unit.scale, target),
                   offset_x |-> RAdd(RMul(RSub(unit.offset_x, RInt(margin)),
                                          target), RInt(margin)),
                   offset_y |-> RAdd(RMul(RSub(unit.offset_y, RInt(margin)),
                                          target), RInt(margin))]
    IN  [k \in 1..Len(drawn) |-> edge_path_groups(drawn[k], view, own)]

\* Lines 300-315: the paths of one group, with the layout of the drawing.
group_paths(wires, view, clip_z, lay) ==
    LET drawn == SelectSeq(emission_points_groups(wires, clip_z),
                           LAMBDA pts : Len(pts) >= 2)
    IN  [k \in 1..Len(drawn) |-> edge_path_groups(drawn[k], view, lay)]

\* Lines 329-346: the bar, its two ticks and its label.
bar_elements_groups(lay, bar) ==
    LET bar_length_svg == RMul(RInt(bar[1]), lay.scale)
        bar_x          == RInt(margin)
        bar_y          == RSub(lay.height, RInt(15))
        bar_end        == RAdd(bar_x, bar_length_svg)
    IN  [x1 |-> Fmt1(bar_x), x2 |-> Fmt1(bar_end), y |-> Fmt1(bar_y),
         tick_top |-> Fmt1(RSub(bar_y, RInt(5))),
         tick_bottom |-> Fmt1(RAdd(bar_y, RInt(5))),
         text_x |-> Fmt1(RAdd(bar_x, RDiv(bar_length_svg, RInt(2)))),
         text_y |-> Fmt1(RSub(bar_y, RInt(8))),
         label |-> bar[2]]

\* Lines 237-352.  stroke_width keeps its default "1.0".
export_wire_groups_to_svg(wire_groups, view, target_size, clip_z) ==
    LET pts == all_points_groups(wire_groups, clip_z)
        lay == layout_groups(pts, view, target_size)
    IN  IF pts = <<>> THEN NothingDrawn(<<>>)
        ELSE [written |-> TRUE,
              svg |-> [width  |-> Fmt1(lay.width),
                       height |-> Fmt1(lay.height),
                       groups |-> [g \in 1..Len(wire_groups) |->
                                     [stroke |-> wire_groups[g].color,
                                      stroke_width |-> "1.0",
                                      paths |-> group_paths(wire_groups[g].wires,
                                                   view, clip_z, lay)]],
                       bar |-> bar_elements_groups(lay,
                                   scale_bar_groups(lay.extent_x, lay.extent_y))],
              locals |-> [all_points |-> pts,
                          emitted |-> Concat([g \in 1..Len(wire_groups) |->
                                        emission_points_groups(
                                            wire_groups[g].wires, clip_z)]),
                          layout |-> lay]]

---------------------------------------------------------------------------
(* The renderers called on one set of arguments, up to MaxCalls times.     *)
(* open(svg_path, 'w') either succeeds, and the file is replaced by the    *)
(* new text, or raises, and the file is left as it was.                    *)

MaxSamples == 3    \* an edge has 2..MaxSamples samples
MaxCalls   == 2    \* the same call is made up to MaxCalls times

\* A file that is appended to instead of replaced.
append_file(old, text) == [earlier |-> old, added |-> text]

\* Lines 233-234 and 351-352: open(svg_path, 'w') and one write.
write_file(old, text) == text

\* A file left at svg_path by an earlier run.
StaleFile == [stale |-> TRUE]

\* Origin, a point above the clip level, a point below the origin.
RenderPoints == {<<0, 0, 0>>, <<1100, 3000, 900>>, <<-1100, -3000, -300>>}

ClipChoices   == {NoClip, <<500>>}
TargetChoices == {600, 800}

ShortEdges == SeqsOfLen(RenderPoints, 2)
LongEdges  == UNION {SeqsOfLen(RenderPoints, n) : n \in 2..MaxSamples}

\* No wire; a wire without edges; one wire of one edge; two edges in one
\* wire; two wires of one edge.
WireLists ==
    {<<>>, << <<>> >>}
        \cup {<< <<e>> >> : e \in LongEdges}
        \cup {<< <<e1, e2>> >> : e1 \in ShortEdges, e2 \in ShortEdges}
        \cup {<< <<e1>>, <<e2>> >> : e1 \in ShortEdges, e2 \in ShortEdges}

SmallWireLists == {<<>>} \cup {<< <<e>> >> : e \in ShortEdges}

Group(wires) == [wires |-> wires, color |-> "black"]

\* No group; one group of any wire list; two groups of small wire lists.
GroupLists ==
    {<<>>}
        \cup {<<Group(w)>> : w \in WireLists}
        \cup {<<Group(w1), Group(w2)>> :
                 w1 \in SmallWireLists, w2 \in SmallWireLists}

InitRender ==
    /\ \/ rd_kind = "single" /\ rd_input \in WireLists
       \/ rd_kind = "groups" /\ rd_input \in GroupLists
    /\ rd_view \in Views
    /\ rd_target \in TargetChoices
    /\ rd_clip \in ClipChoices
    /\ rd_file \in {NoFile, StaleFile}
    /\ rd_calls = 0 /\ rd_raised = FALSE /\ rd_locals = NotCalled
    /\ PositionsIdle /\ MapPointIdle /\ ScaleBarIdle
    /\ it_frac = RInt(0) /\ it_out = NotCalled
    /\ sp_hw = RInt(0) /\ sp_hd = RInt(0) /\ sp_pts = NotCalled
    /\ sl_in = <<>> /\ sl_out = NotCalled
    /\ DesignIdle /\ LinesIdle

\* The effect of one call whose return value is r.
Rendered(r) ==
    /\ rd_calls' = rd_calls + 1
    /\ rd_locals' = r.locals
    /\ IF r.written
       THEN \/ rd_file' = write_file(rd_file, r.svg) /\ rd_raised' = FALSE
            \/ rd_file' = rd_file /\ rd_raised' = TRUE
       ELSE rd_file' = rd_file /\ rd_raised' = FALSE
    /\ UNCHANGED <<rd_kind, rd_input, rd_view, rd_target, rd_clip, ps_params,
                   ps_sections, ps_waterlines, mp_point, mp_view, mp_out,
                   sb_extents, sb_out, pureVars, designVars, linesVars>>

ExportWires ==
    /\ rd_kind = "single" /\ rd_calls < MaxCalls /\ ~rd_raised
    /\ Rendered(export_wires_to_svg(rd_input, rd_view, rd_target, rd_clip))

ExportWireGroups ==
    /\ rd_kind = "groups" /\ rd_calls < MaxCalls /\ ~rd_raised
    /\ Rendered(export_wire_groups_to_svg(rd_input, rd_view, rd_target, rd_clip))

NextRender == ExportWires \/ ExportWireGroups

SpecRender == InitRender /\ [][NextRender]_vars

---------------------------------------------------------------------------
(* Claims about the renderers.                                             *)

\* The last call computed a layout (it had at least one retained point).
LaidOut == rd_calls > 0 /\ rd_locals.all_points # <<>>

\* The file at svg_path holds a drawing written by a call.
FileWritten == rd_file # NoFile /\ rd_file # StaleFile

\* The retained points in the two drawing coordinates of the view.
RetainedMapped ==
    {map_point(rd_locals.all_points[k], rd_view) :
        k \in DOMAIN rd_locals.all_points}

SpanOf(S) ==
    (CHOOSE m \in S : \A n \in S : m >= n) - (CHOOSE m \in S : \A n \in S : m <= n)

GuardedU == RMax(RInt(SpanOf({m[1] : m \in RetainedMapped})), Rat(1, 10))
GuardedV == RMax(RInt(SpanOf({m[2] : m \in RetainedMapped})), Rat(1, 10))

\* Where the layout of the last call puts model point p.
Placed(p) ==
    LET m == map_point(p, rd_view)
    IN  <<RAdd(RMul(RInt(m[1]), rd_locals.layout.scale),
               rd_locals.layout.offset_x),
          RAdd(RMul(RInt(m[2]), rd_locals.layout.scale),
               rd_locals.layout.offset_y)>>

\* The paths of the file, group after group.
FilePaths == Concat([g \in 1..Len(rd_file.groups) |-> rd_file.groups[g].paths])

\* The edges the last call drew: those with at least two retained samples.
DrawnEdges == SelectSeq(rd_locals.emitted, LAMBDA pts : Len(pts) >= 2)

\* C12: with at least one retained point and target_size > 0 there is one
\* scale = target_size / max(extentU, extentV) > 0, each extent at least
\* 0.1; every point of every path is placed with that scale and the same
\* offsets; every path coordinate, exact and as written, lies in
\* [margin, margin + target_size] and inside the canvas; the larger
\* guarded extent spans exactly target_size.
C12_UniformScale ==
    LaidOut =>
        LET lay == rd_locals.layout
        IN  /\ lay.extent_x = GuardedU /\ lay.extent_y = GuardedV
            /\ RLt(RInt(0), lay.scale)
            /\ lay.scale = RDiv(RInt(rd_target), RMax(GuardedU, GuardedV))
            /\ RMul(RMax(lay.extent_x, lay.extent_y), lay.scale) = RInt(rd_target)
            /\ \A k \in DOMAIN rd_locals.all_points :
                  LET at == Placed(rd_locals.all_points[k])
                  IN  /\ RLe(RInt(margin), at[1])
                      /\ RLe(at[1], RInt(margin + rd_target))
                      /\ RLe(at[1], RSub(lay.width, RInt(margin)))
                      /\ RLe(RInt(margin), at[2])
                      /\ RLe(at[2], RInt(margin + rd_target))
                      /\ RLe(at[2], RSub(lay.height, RInt(margin)))
            /\ FileWritten =>
                  /\ Len(FilePaths) = Len(DrawnEdges)
                  /\ \A e \in DOMAIN FilePaths :
                        /\ Len(FilePaths[e]) = Len(DrawnEdges[e])
                        /\ \A k \in DOMAIN FilePaths[e] :
                              LET at == Placed(DrawnEdges[e][k])
                              IN  /\ FilePaths[e][k][2] = Fmt2(at[1])
                                  /\ FilePaths[e][k][3] = Fmt2(at[2])
                                  /\ FilePaths[e][k][2] \in
                                        (100 * margin)..(100 * (margin + rd_target))
                                  /\ FilePaths[e][k][3] \in
                                        (100 * margin)..(100 * (margin + rd_target))

\* One edge whose two samples are the origin: both extents are guarded to
\* 0.1, the scale is 800 / 0.1 = 8000, and the path is written at (40, 40).
C12_Witness ==
    /\ rd_kind = "single" /\ rd_target = 800
    /\ rd_input = << << << <<0, 0, 0>>, <<0, 0, 0>> >> >> >>
    /\ LaidOut /\ FileWritten
    /\ rd_locals.layout.extent_x = Rat(1, 10)
    /\ rd_locals.layout.scale = RInt(8000)
    /\ rd_file.groups[1].paths = << << <<"M", 4000, 4000>>, <<"L", 4000, 4000>> >> >>

\* The edges of the input, in drawing order.
InputEdges ==
    IF rd_kind = "single" THEN Concat(rd_input)
    ELSE Concat([g \in 1..Len(rd_input) |-> Concat(rd_input[g].wires)])

Clipped(p) == rd_clip # NoClip /\ p[3] > rd_clip[1]

\* The input is empty, or clipping removes every sample of it.
NothingRetained ==
    \A e \in DOMAIN InputEdges :
        \A k \in DOMAIN InputEdges[e] : Clipped(InputEdges[e][k])

\* C14: given an empty input, or an input from which clipping removes
\* every point, a renderer returns without raising and leaves svg_path as
\* it was: no file is created, an existing file is not modified.
C14_EmptyInputNoFile ==
    [][(rd_kind # "none" /\ NothingRetained) =>
          (~rd_raised' /\ rd_file' = rd_file)]_vars

\* Two calls on two groups whose only samples are above the clip level,
\* with a file of an earlier run at svg_path: the file is still that file.
C14_Witness ==
    /\ rd_kind = "groups" /\ rd_calls = 2 /\ ~rd_raised
    /\ rd_clip = <<500>>
    /\ Len(rd_input) = 2 /\ Len(InputEdges) = 2
    /\ NothingRetained
    /\ rd_file = StaleFile

\* What the renderer of the call writes for the arguments of the call.
Drawing ==
    IF rd_kind = "single"
    THEN export_wires_to_svg(rd_input, rd_view, rd_target, rd_clip).svg
    ELSE export_wire_groups_to_svg(rd_input, rd_view, rd_target, rd_clip).svg

Kept(edge) == SelectSeq(edge, LAMBDA p : ~Clipped(p))

\* The retained points of all groups together.
UnionRetained ==
    UNION {{InputEdges[e][k] : k \in DOMAIN InputEdges[e]} : e \in DOMAIN InputEdges}
        \ {p \in RenderPoints : Clipped(p)}

\* The edges of group g that are drawn, reduced to their retained samples.
DrawnOf(g) ==
    LET edges == Concat(rd_input[g].wires)
    IN  SelectSeq([k \in 1..Len(edges) |-> Kept(edges[k])],
                  LAMBDA pts : Len(pts) >= 2)

\* The single-group renderer on the wires of the only group.
AsSingle == export_wires_to_svg(rd_input[1].wires, rd_view, rd_target, rd_clip)

\* C16: in a multi-group drawing one scale and one pair of offsets is
\* computed from the union of the retained points of all groups, after
\* all of them were gathered; every path of every group is written with
\* that scale and those offsets; for a single group the scale, offsets
\* and path coordinates are those of the single-group renderer.
C16_OneScaleForAllGroups ==
    (rd_kind = "groups" /\ LaidOut) =>
        LET lay == rd_locals.layout
        IN  /\ {rd_locals.all_points[k] : k \in DOMAIN rd_locals.all_points}
                  = UnionRetained
            /\ lay.scale = RDiv(RInt(rd_target), RMax(GuardedU, GuardedV))
            /\ \A m \in RetainedMapped :
                  /\ RLe(RInt(margin),
                         RAdd(RMul(RInt(m[1]), lay.scale), lay.offset_x))
                  /\ RLe(RInt(margin),
                         RAdd(RMul(RInt(m[2]), lay.scale), lay.offset_y))
            /\ \E m \in RetainedMapped :
                  RAdd(RMul(RInt(m[1]), lay.scale), lay.offset_x) = RInt(margin)
            /\ \E m \in RetainedMapped :
                  RAdd(RMul(RInt(m[2]), lay.scale), lay.offset_y) = RInt(margin)
            /\ FileWritten =>
                  /\ Len(rd_file.groups) = Len(rd_input)
                  /\ \A g \in DOMAIN rd_input :
                        /\ Len(rd_file.groups[g].paths) = Len(DrawnOf(g))
                        /\ \A e \in DOMAIN DrawnOf(g) :
                              rd_file.groups[g].paths[e] =
                                  [k \in 1..Len(DrawnOf(g)[e]) |->
                                      <<IF k = 1 THEN "M" ELSE "L",
                                        Fmt2(Placed(DrawnOf(g)[e][k])[1]),
                                        Fmt2(Placed(DrawnOf(g)[e][k])[2])>>]
                  /\ Len(rd_input) = 1 =>
                        /\ lay = AsSingle.locals.layout
                        /\ rd_file.groups[1].paths = AsSingle.svg.groups[1].paths

\* Two groups in the body-plan view, one edge each, the second reaching
\* further out: both paths are written with the scale 600 / 2200.
C16_Witness ==
    /\ rd_kind = "groups" /\ rd_view = BodyView /\ rd_target = 600
    /\ rd_clip = NoClip /\ FileWritten
    /\ rd_input = <<Group(<< << << <<0, 0, 0>>, <<1100, 3000, 900>> >> >> >>),
                    Group(<< << << <<0, 0, 0>>, <<-1100, -3000, -300>> >> >> >>)>>
    /\ rd_locals.layout.scale = Rat(600, 2200)
    /\ Len(rd_file.groups[1].paths) = 1 /\ Len(rd_file.groups[2].paths) = 1

\* C20: with clip_z set no sample with z > clip_z contributes: the extents
\* pass and the emission pass keep the same samples; every path is made of
\* the kept samples of one edge in their order; an edge with fewer than
\* two kept samples has no path; without clip_z every sample is kept.
C20_ClipConsistent ==
    LaidOut =>
        /\ rd_locals.all_points = Concat(rd_locals.emitted)
        /\ \A k \in DOMAIN rd_locals.all_points :
              ~Clipped(rd_locals.all_points[k])
        /\ Len(rd_locals.emitted) = Len(InputEdges)
        /\ \A e \in DOMAIN InputEdges : rd_locals.emitted[e] = Kept(InputEdges[e])
        /\ rd_clip = NoClip =>
              \A e \in DOMAIN InputEdges : rd_locals.emitted[e] = InputEdges[e]
        /\ FileWritten =>
              LET drawn == SelectSeq([e \in DOMAIN InputEdges |-> Kept(InputEdges[e])],
                                     LAMBDA pts : Len(pts) >= 2)
              IN  /\ Len(FilePaths) = Len(drawn)
                  /\ \A e \in DOMAIN drawn :
                        FilePaths[e] =
                            [k \in 1..Len(drawn[e]) |->
                                <<IF k = 1 THEN "M" ELSE "L",
                                  Fmt2(Placed(drawn[e][k])[1]),
                                  Fmt2(Placed(drawn[e][k])[2])>>]

\* An edge of three samples whose middle one is above the clip level: the
\* path joins the first and the third.  Profile view, target 800.
C20_Witness ==
    /\ rd_kind = "single" /\ rd_view = ProfileView /\ rd_target = 800
    /\ rd_clip = <<500>> /\ FileWritten
    /\ rd_input = << << << <<0, 0, 0>>, <<1100, 3000, 900>>,
                           <<-1100, -3000, -300>> >> >> >>
    /\ rd_locals.all_points = << <<0, 0, 0>>, <<-1100, -3000, -300>> >>
    /\ rd_file.groups[1].paths =
          << << <<"M", 84000, 4000>>, <<"L", 4000, 12000>> >> >>

\* ---------------------------------------------------------------------
\* The hull object after the hull stage (design/main.py:198-219).

\* The hull stage has ended without ending the run.
HullStageDone ==
    pc \in {"deck", "keel", "rudder", "stock", "mast", "boom", "air",
            "finalize", "done"}

\* The objects created under the requested name Hull_Shell__fiberglass,
\* in the order of creation.  The document keeps the requested name for
\* the first of them only.
HullObjects == SelectSeq(vessel, LAMBDA o : o.name = "Hull_Shell__fiberglass")

\* C21: after the hull stage, whichever statement of the protected block
\* failed or if none did, the vessel holds exactly one hull object; its
\* shape is the lofted shell or the fallback box and it is placed at
\* deck level.
C21_ExactlyOneHull ==
    HullStageDone =>
        /\ Len(HullObjects) = 1
        /\ HullObjects[1].shape \in {Solid("hull_shell"), HullBox}
        /\ HullObjects[1].placed

\* ---------------------------------------------------------------------
\* The hull builder's stations and the drawing stage's slice stations for
\* one parameter set (design/main.py:184-196, lines/__main__.py:48-67).

\* Both stages are given the same complete parameter set.
InitBothStages ==
    /\ \E dims \in HullDims, s \in SectionChoices :
          /\ params = ParamsOf(dims, s, "none")
          /\ ps_params = params
    /\ ps_sections = NotCalled /\ ps_waterlines = NotCalled
    /\ pc = "start" /\ i = 0
    /\ outer_wires = <<>> /\ inner_wires = <<>> /\ loft_calls = <<>>
    /\ inner_loft = "undefined"
    /\ vessel = <<>> /\ log = <<>> /\ kernel_calls = 0 /\ kernel_failed = {}
    /\ fatal = NoFatal /\ saved = FALSE
    /\ it_frac = RInt(0) /\ it_out = NotCalled
    /\ sp_hw = RInt(0) /\ sp_hd = RInt(0) /\ sp_pts = NotCalled
    /\ sl_in = <<>> /\ sl_out = NotCalled
    /\ MapPointIdle /\ ScaleBarIdle /\ RenderIdle
    /\ LinesIdle

\* The builder's station loop, and the drawing stage's position function.
NextBothStages == ReadHullParams \/ Station \/ SectionPositionsCall

SpecBothStages == InitBothStages /\ [][NextBothStages]_vars

\* The builder has placed all its wires and the drawing stage has
\* computed its slice stations.
BothStagesDone == pc = "hull" /\ ps_sections # NotCalled

\* C22: for one parameter set the slice stations of the drawing stage are
\* the stations of the hull builder: the same count and, apart from the
\* nudge of positions within 1 of zero, the same longitudinal positions,
\* for every hull_sections and for the default.
C22_SameStations ==
    BothStagesDone =>
        /\ ~ps_sections.raised
        /\ Len(ps_sections.positions) = Len(outer_wires)
        /\ \A k \in 1..Len(outer_wires) :
              ps_sections.positions[k][2] = Nudged(outer_wires[k].y)

\* The two stages agree when hull_sections is at least the builder's minimum.
C22_AgreeFromMinimum ==
    (BothStagesDone /\ Get(params, "hull_sections", DefaultSections) >= MinSections)
        => C22_SameStations

\* ---------------------------------------------------------------------
\* Inner and outer section at one station (design/main.py:126-149, 188-196).

\* Lines 130-131: the points the wire of a station is drawn through.
WirePoints(w) == hull_section_points(w.hw, w.hd)

Thickness == RInt(params["hull_thickness"])

\* Beam, depth and thickness are all > 0.
PositiveHull ==
    /\ HasKeys(HullKeys)
    /\ params["hull_beam"] > 0 /\ params["hull_depth"] > 0
    /\ params["hull_thickness"] > 0

\* The inner half-width and half-depth are the outer ones less the
\* thickness, and so strictly smaller.
InnerOffset(k) ==
    /\ inner_wires[k].y = outer_wires[k].y
    /\ inner_wires[k].hw = RSub(outer_wires[k].hw, Thickness)
    /\ inner_wires[k].hd = RSub(outer_wires[k].hd, Thickness)
    /\ RLt(inner_wires[k].hw, outer_wires[k].hw)
    /\ RLt(inner_wires[k].hd, outer_wires[k].hd)
    /\ RLt(RInt(0), inner_wires[k].hw) /\ RLt(RInt(0), inner_wires[k].hd)

\* a <= b and a < b, compared over the least common denominator.
Le(a, b) ==
    LET g == GCD(a[2], b[2]) IN a[1] * (b[2] \div g) <= b[1] * (a[2] \div g)
Lt(a, b) ==
    LET g == GCD(a[2], b[2]) IN a[1] * (b[2] \div g) < b[1] * (a[2] \div g)

\* Point p is on the straight edge that closes wire w at the sheer, line 138.
OnClosingEdge(p, w) == p[2] = RInt(0) /\ Le(RAbs(p[1]), w.hw)

\* Necessary for p to be strictly inside the closed wire w: p is below the
\* closing edge, above the keel and between the two sheer points.
StrictlyWithin(p, w) ==
    /\ Lt(p[2], RInt(0)) /\ Lt(RNeg(w.hd), p[2])
    /\ Lt(RAbs(p[1]), w.hw)

\* C23 as stated: at every station, for beam, depth and thickness > 0,
\* the inner half-width and half-depth are strictly smaller than the
\* outer ones by exactly the thickness, and the inner wire lies strictly
\* inside the outer wire.
C23_AsStated ==
    PositiveHull =>
        \A k \in 1..Len(inner_wires) :
            /\ InnerOffset(k)
            /\ \A j \in 1..(2 * n_pts + 1) :
                  StrictlyWithin(WirePoints(inner_wires[k])[j], outer_wires[k])

\* C23 as amended: at every station, for beam, depth and thickness > 0,
\* the inner half-width and half-depth are strictly smaller than the
\* outer ones by exactly the thickness; every point of the inner wire
\* is no further out and no deeper than the outer point of the same
\* index; the inner keel point is the thickness above the outer keel
\* point; all points but the two sheer points are strictly within the
\* outer wire's width and depth; the two sheer points lie on the outer
\* wire's closing edge, the thickness inboard of its ends.  Stated of the
\* wires the station loop has built when it ends.
C23_Amended ==
    (PositiveHull /\ pc = "hull") =>
        \A k \in 1..Len(inner_wires) :
            LET inner == WirePoints(inner_wires[k])
                outer == WirePoints(outer_wires[k])
                last  == 2 * n_pts + 1
            IN  /\ InnerOffset(k)
                /\ Len(inner) = last /\ Len(outer) = last
                /\ \A j \in 1..last :
                      /\ Le(RAbs(inner[j][1]), RAbs(outer[j][1]))
                      /\ Le(outer[j][2], inner[j][2])
                      /\ IF j \in {1, last}
                         THEN /\ OnClosingEdge(inner[j], outer_wires[k])
                              /\ RAbs(inner[j][1]) =
                                    RSub(RAbs(outer[j][1]), Thickness)
                         ELSE StrictlyWithin(inner[j], outer_wires[k])
                /\ inner[n_pts + 1] =
                      <<RInt(0), RAdd(outer[n_pts + 1][2], Thickness)>>

\* The bow station of a 100 x 900 hull with thickness 8: the outer
\* half-width 50 * 0.02 = 1 is floored to 16 and the half-depth is 180;
\* the inner section is 8 x 172, and the inner sheer point (8, 0) is on
\* the outer closing edge.
C23_Witness ==
    /\ PositiveHull /\ pc = "hull"
    /\ params["hull_beam"] = 100 /\ params["hull_depth"] = 900
    /\ params["hull_thickness"] = 8
    /\ outer_wires[num_sections].hw = RInt(16)
    /\ outer_wires[num_sections].hd = RInt(180)
    /\ inner_wires[num_sections].hw = RInt(8)
    /\ inner_wires[num_sections].hd = RInt(172)
    /\ WirePoints(inner_wires[num_sections])[2 * n_pts + 1] = <<RInt(8), RInt(0)>>

\* ---------------------------------------------------------------------
\* The scale bar and the canvas (lines/__main__.py:161-171, 200-229,
\* 318-347).  Canvas and bar coordinates are written to one decimal, path
\* coordinates to two.

BarHorizontallyInside ==
    /\ rd_file.bar.x1 = 10 * margin
    /\ rd_file.bar.x1 <= rd_file.bar.x2
    /\ rd_file.bar.x2 <= rd_file.width
    /\ rd_file.bar.text_x <= rd_file.width

BarInReservedStrip ==
    /\ rd_file.bar.tick_top <= rd_file.bar.y
    /\ rd_file.bar.y <= rd_file.bar.tick_bottom
    /\ rd_file.bar.tick_bottom <= rd_file.height
    /\ \A e \in DOMAIN FilePaths : \A k \in DOMAIN FilePaths[e] :
          FilePaths[e][k][3] < 10 * rd_file.bar.tick_top

\* The renderer on body-plan sections.  A section wire is sampled at its
\* port sheer, keel and starboard sheer points; the sections are the bow
\* (22 x 180) and midship (1100 x 900) stations of the 6000 x 2200 x 900
\* hull and the two mixed shapes.
SectionEdge(hw, hd) == << <<-hw, 0, 0>>, <<0, 0, -hd>>, <<hw, 0, 0>> >>

SectionWireLists ==
    {<< << SectionEdge(hw, hd) >> >> : hw \in {22, 1100}, hd \in {180, 900}}

InitRenderSections ==
    /\ \E wires \in SectionWireLists :
          \/ rd_kind = "single" /\ rd_input = wires
          \/ rd_kind = "groups" /\ rd_input = <<Group(wires)>>
    /\ rd_view \in Views
    /\ rd_target \in TargetChoices
    /\ rd_clip \in ClipChoices
    /\ rd_file \in {NoFile, StaleFile}
    /\ rd_calls = 0 /\ rd_raised = FALSE /\ rd_locals = NotCalled
    /\ PositionsIdle /\ MapPointIdle /\ ScaleBarIdle
    /\ it_frac = RInt(0) /\ it_out = NotCalled
    /\ sp_hw = RInt(0) /\ sp_hd = RInt(0) /\ sp_pts = NotCalled
    /\ sl_in = <<>> /\ sl_out = NotCalled
    /\ DesignIdle /\ LinesIdle

SpecRenderSections == InitRenderSections /\ [][NextRender]_vars

\* C24: in every emitted drawing the scale bar is inside the canvas: its
\* left end is at the margin, its right end does not exceed the canvas
\* width, and it lies in the strip beneath the geometry, below every path
\* point and above the canvas bottom.
C24_ScaleBarInsideCanvas ==
    FileWritten => BarHorizontallyInside /\ BarInReservedStrip

\* The vertical part alone: the bar lies in the strip beneath the geometry.
C24_BarBelowGeometry == FileWritten => BarInReservedStrip

====
